---- MODULE Spec2Model ----
(***************************************************************************)
(* Model of the stock-squeeze backend: the squeeze scoring engine and the  *)
(* market-wide scanner (backend/squeeze_detector.py) and the exit-signal   *)
(* analyzer (backend/portfolio_monitor.py).                                *)
(*                                                                         *)
(* Numbers.  Prices are integers (cents), volumes and share counts are     *)
(* integers.  Every comparison the code makes between a ratio and a        *)
(* threshold is made here by cross-multiplication, so it is exact; the     *)
(* rounding of IEEE doubles is not modelled.  A percentage that is only    *)
(* compared with integer thresholds by >= is carried as its integer part.  *)
(*                                                                         *)
(* Python values.  None is Null (the empty sequence) and a number n that   *)
(* may be None is Num(n) (a one-element sequence); a dict is a record and  *)
(* a key the dict lacks is a field the record lacks.                       *)
(***************************************************************************)
EXTENDS Integers, Sequences, FiniteSets, TLC

VARIABLES
    \* ---- scoring engine (squeeze_detector.py) ----
    data,            \* the dict handed to _calculate_enhanced_squeeze_score
    squeeze_score,   \* the score it returned
    urgency_args,    \* the arguments of the last _determine_urgency call
    urgency,         \* the tier it returned
    score_pc,        \* "input" | "args" | "scored" | "rescored" | "classified"
    \* ---- exit-signal analyzer (portfolio_monitor.py) ----
    market_hours,    \* what is_market_hours() returns during the call
    fetch_raises,    \* whether yf.Ticker(symbol).history(...) raises
    hist,            \* the 1-minute candles it returns: [Close, High, Volume]
    avg_price,       \* the position's average cost: Null or Num(cents)
    quantity,        \* the position's quantity
    ah_quote,        \* what get_after_hours_price returns: None or a dict
    exit_result,     \* what analyze_stock_exit returned: None or a dict
    price_history,   \* self.price_history[symbol]
    volume_history,  \* self.volume_history[symbol]
    exit_pc,         \* "idle" | "input" | "done"
    \* ---- market-wide scanner (squeeze_detector.py) ----
    market,              \* per symbol, what yfinance answers for it
    yahoo_movers,        \* the symbols the Yahoo pages list
    finviz_movers,       \* the symbols the Finviz screens list
    yahoo_fails,         \* whether _get_yahoo_movers fails
    finviz_fails,        \* whether _get_finviz_movers fails
    halt_source,         \* the halts the NASDAQ page lists
    halt_fetch_fails,    \* whether the NASDAQ request raises
    halt_fetched,        \* whether get_trading_halts has asked NASDAQ
    analyzed,            \* the symbols handed to _analyze_individual_stock, in order
    pauses,              \* how many times the scan has slept between batches
    now,                 \* datetime.now(), in minutes
    trading_halts_cache, \* self.trading_halts_cache
    last_halt_update,    \* self.last_halt_update: Null or Num(minutes)
    min_change_percent,  \* argument of get_squeeze_opportunities
    min_score,           \* argument of get_squeeze_opportunities
    trading_halts,       \* local of get_squeeze_opportunities
    candidates_list,     \* local of get_squeeze_opportunities
    batch_start,         \* the loop variable i
    squeeze_opportunities, \* local of get_squeeze_opportunities
    scan_result,         \* what get_squeeze_opportunities returned
    scan_pc,             \* "idle" | "start" | "batch" | "pause" | "sort" | "done"
    \* ---- scheduler loops (main.py) ----
    market_open,         \* what is_market_hours() returns at this moment
    firestore_portfolio, \* the documents of the 'portfolio' collection
    monitor_pc,          \* "idle" | "check" | "fetch" | "eval" | "close" | "sleep"
    monitor_sleep,       \* seconds of the asyncio.sleep the monitor loop is in
    portfolio,           \* local of background_portfolio_monitor
    stock_index,         \* how many stocks of portfolio the for loop has done
    last_exit_signals,   \* local exit_signals: what analyze_stock_exit returned
    stored_exit_signal,  \* the argument of the last store_exit_signal call of
                         \* this iteration for the last stock, or None
    critical_alert,      \* whether the last stock's result was escalated
    scanner_pc,          \* "idle" | "scan" | "store" | "sleep"
    scanner_opportunities, \* local opportunities of the scanner loop, still to store
    cleanup_pc,          \* "idle" | "run" | "sleep"
    failed_loops,        \* the loops in which an iteration has raised
    \* --- the rate limiter of StockDataFetcher ---
    clock,               \* time.time(), in units of 50 ms
    last_request_time,   \* self.last_request_time: api name -> Null or Num
    rl_task,             \* per task: where it is, its api_name, its wake-up time
    released,            \* the requests rate_limit_wait has let go, in order
    \* --- the portfolio store, one monitor-loop iteration and the manual triggers ---
    pf_open,             \* what is_market_hours() answers during the runs
    pf_collection,       \* the symbols of the Firestore collection 'portfolio'
    pf_exit_signals,     \* the symbols with a document in 'exit_signals'
    pf_removed,          \* the symbols removed and not added again since
    pf_task,             \* the loop iteration and the manual monitor run
    pf_scans,            \* per scan task: Null, or Num of the list it stored
    \* --- the market-hours predicates ---
    now_et,              \* datetime.now(US/Eastern): weekday, hour, minute, second
    market_hours_result, \* what is_market_hours() returned, Null before the call
    after_hours_result,  \* what is_after_hours() returned, Null before the call
    \* --- get_trading_halts called from several tasks ---
    hc_now,              \* datetime.now() in minutes
    hc_cache,            \* trading_halts_cache
    hc_last_update,      \* last_halt_update: Null or Num(minute)
    hc_cache_of,         \* Null, or Num of the request the cache was filled from
    hc_task,             \* per calling task: where it is inside get_trading_halts
    hc_issued            \* the minute each request to the halt page was issued at

score_vars == <<data, squeeze_score, urgency_args, urgency, score_pc>>

exit_vars ==
    <<market_hours, fetch_raises, hist, avg_price, quantity, ah_quote,
      exit_result, price_history, volume_history, exit_pc>>

scan_vars ==
    <<market, yahoo_movers, finviz_movers, yahoo_fails, finviz_fails,
      halt_source, halt_fetch_fails, halt_fetched, analyzed, pauses, now,
      trading_halts_cache, last_halt_update, min_change_percent, min_score,
      trading_halts, candidates_list, batch_start, squeeze_opportunities,
      scan_result, scan_pc>>

loop_vars ==
    <<market_open, firestore_portfolio, monitor_pc, monitor_sleep, portfolio,
      stock_index, last_exit_signals, stored_exit_signal, critical_alert,
      scanner_pc, scanner_opportunities, cleanup_pc, failed_loops>>

rate_vars == <<clock, last_request_time, rl_task, released>>

pf_vars ==
    <<pf_open, pf_collection, pf_exit_signals, pf_removed, pf_task, pf_scans>>

mh_vars ==
    <<now_et, market_hours_result, after_hours_result>>

hc_vars ==
    <<hc_now, hc_cache, hc_last_update, hc_cache_of, hc_task, hc_issued>>

vars ==
    <<score_vars, exit_vars, scan_vars, loop_vars,
      rate_vars, pf_vars, mh_vars, hc_vars>>

\* What the steps of one component leave alone.
not_score_vars ==
    <<exit_vars, scan_vars, loop_vars, rate_vars,
      pf_vars, mh_vars, hc_vars>>

not_exit_vars ==
    <<score_vars, scan_vars, loop_vars, rate_vars,
      pf_vars, mh_vars, hc_vars>>

not_scan_vars ==
    <<score_vars, exit_vars, loop_vars, rate_vars,
      pf_vars, mh_vars, hc_vars>>

not_loop_vars ==
    <<score_vars, exit_vars, scan_vars, rate_vars,
      pf_vars, mh_vars, hc_vars>>

not_rate_vars ==
    <<score_vars, exit_vars, scan_vars, loop_vars,
      pf_vars, mh_vars, hc_vars>>

not_pf_vars ==
    <<score_vars, exit_vars, scan_vars, loop_vars,
      rate_vars, mh_vars, hc_vars>>

not_mh_vars ==
    <<score_vars, exit_vars, scan_vars, loop_vars,
      rate_vars, pf_vars, hc_vars>>

not_hc_vars ==
    <<score_vars, exit_vars, scan_vars, loop_vars,
      rate_vars, pf_vars, mh_vars>>

----------------------------------------------------------------------------
(* Python helpers *)

Null == <<>>

\* None where a dict is expected.
None == [none |-> TRUE]

Num(n) == <<n>>

IsNull(v) == v = Null

Val(v) == v[1]

\* dict.get(key, default)
Get(d, key, default) == IF key \in DOMAIN d THEN d[key] ELSE default

Abs(n) == IF n < 0 THEN -n ELSE n

Min(a, b) == IF a <= b THEN a ELSE b

Max(a, b) == IF a >= b THEN a ELSE b

----------------------------------------------------------------------------
(* Scoring engine: MarketWideSqueezeDetector *)

\* Mutant: the >= 200 tier adds the 15 points of the tier below it.
PricePointsTierCopied(change_pct) ==
    IF change_pct >= 500 THEN 25
    ELSE IF change_pct >= 300 THEN 22
    ELSE IF change_pct >= 200 THEN 15
    ELSE IF change_pct >= 100 THEN 15
    ELSE IF change_pct >= 50 THEN 10
    ELSE 0

\* 1. Price movement (0-25 points)
PricePoints(change_pct) ==
    IF change_pct >= 500 THEN 25
    ELSE IF change_pct >= 300 THEN 22
    ELSE IF change_pct >= 200 THEN 18
    ELSE IF change_pct >= 100 THEN 15
    ELSE IF change_pct >= 50 THEN 10
    ELSE 0

\* 2. Volume spike (0-25 points)
VolumePoints(volume_spike) ==
    IF volume_spike >= 20 THEN 25
    ELSE IF volume_spike >= 10 THEN 20
    ELSE IF volume_spike >= 5 THEN 15
    ELSE IF volume_spike >= 3 THEN 10
    ELSE IF volume_spike >= 2 THEN 5
    ELSE 0

\* 3. Trading halt bonus (0-20 points)
HaltPoints(trading_halt) == IF trading_halt THEN 20 ELSE 0

\* 4. Social media buzz (0-15 points)
SocialPoints(social_mentions) ==
    IF social_mentions >= 1000 THEN 15
    ELSE IF social_mentions >= 500 THEN 12
    ELSE IF social_mentions >= 100 THEN 8
    ELSE IF social_mentions >= 50 THEN 5
    ELSE 0

\* Mutant: the float tiers include their upper bounds.
FloatPointsInclusive(float_shares) ==
    IF float_shares > 0
    THEN IF float_shares <= 10000000 THEN 10
         ELSE IF float_shares <= 50000000 THEN 7
         ELSE IF float_shares <= 100000000 THEN 4
         ELSE 0
    ELSE 0

\* 5. Float size (0-10 points)
FloatPoints(float_shares) ==
    IF float_shares > 0
    THEN IF float_shares < 10000000 THEN 10
         ELSE IF float_shares < 50000000 THEN 7
         ELSE IF float_shares < 100000000 THEN 4
         ELSE 0
    ELSE 0

\* 6. Short interest (0-5 points)
ShortPoints(short_ratio) ==
    IF short_ratio >= 10 THEN 5
    ELSE IF short_ratio >= 5 THEN 3
    ELSE IF short_ratio >= 2 THEN 1
    ELSE 0

\* A comparison of None with a number raises TypeError inside the try block.
ScoreRaises(d) ==
    \/ IsNull(Get(d, "social_mentions", Num(0)))
    \/ IsNull(Get(d, "float_shares", Num(0)))
    \/ IsNull(Get(d, "short_ratio", Num(0)))

\* The score accumulated by the six blocks, before the final min(score, 100).
ScoreSum(d) ==
    PricePoints(Abs(Get(d, "change_percent", 0)))
    + VolumePoints(Get(d, "volume_spike", 1))
    + HaltPoints(Get(d, "trading_halt", FALSE))
    + SocialPoints(Val(Get(d, "social_mentions", Num(0))))
    + FloatPoints(Val(Get(d, "float_shares", Num(0))))
    + ShortPoints(Val(Get(d, "short_ratio", Num(0))))

\* Mutant: the except branch returns the error sentinel -1 instead of 0.
CalcScoreErrorSentinel(d) ==
    IF ScoreRaises(d) THEN -1 ELSE Min(ScoreSum(d), 100)

_calculate_enhanced_squeeze_score(d) ==
    IF ScoreRaises(d) THEN 0 ELSE Min(ScoreSum(d), 100)

\* Mutant: the second CRITICAL branch loses its has_halt conjunct.
DetermineUrgencyNoHaltGuard(score, has_halt, volume_spike, change_percent) ==
    IF has_halt /\ score >= 80 THEN "CRITICAL"
    ELSE IF score >= 90 \/ score >= 70 THEN "CRITICAL"
    ELSE IF score >= 80 \/ volume_spike >= 10 THEN "HIGH"
    ELSE IF score >= 70 \/ Abs(change_percent) >= 200 THEN "HIGH"
    ELSE IF score >= 60 THEN "MEDIUM"
    ELSE "LOW"

\* Mutant: a score of exactly 60 falls through to LOW.
DetermineUrgencyLowAtSixty(score, has_halt, volume_spike, change_percent) ==
    IF has_halt /\ score >= 80 THEN "CRITICAL"
    ELSE IF score >= 90 \/ (has_halt /\ score >= 70) THEN "CRITICAL"
    ELSE IF score >= 80 \/ volume_spike >= 10 THEN "HIGH"
    ELSE IF score >= 70 \/ Abs(change_percent) >= 200 THEN "HIGH"
    ELSE IF score > 60 THEN "MEDIUM"
    ELSE "LOW"

_determine_urgency(score, has_halt, volume_spike, change_percent) ==
    IF has_halt /\ score >= 80 THEN "CRITICAL"
    ELSE IF score >= 90 \/ (has_halt /\ score >= 70) THEN "CRITICAL"
    ELSE IF score >= 80 \/ volume_spike >= 10 THEN "HIGH"
    ELSE IF score >= 70 \/ Abs(change_percent) >= 200 THEN "HIGH"
    ELSE IF score >= 60 THEN "MEDIUM"
    ELSE "LOW"

_get_urgency_priority(u) ==
    CASE u = "CRITICAL" -> 4
      [] u = "HIGH" -> 3
      [] u = "MEDIUM" -> 2
      [] u = "LOW" -> 1
      [] OTHER -> 1

----------------------------------------------------------------------------
(* Inputs of the scoring engine *)

ChangePercents ==
    {-10000, -250, 0, 49, 50, 99, 100, 150, 199, 200, 250, 300, 499, 500, 10000}

VolumeSpikes == {0, 1, 2, 3, 5, 9, 10, 12, 20, 1000}

SocialMentions == {Null, Num(0), Num(50), Num(100), Num(500), Num(1000)}

FloatShares ==
    {Null, Num(0), Num(5000000), Num(10000000), Num(50000000), Num(100000000)}

ShortRatios == {Null, Num(0), Num(2), Num(5), Num(10)}

FullSnapshots ==
    [change_percent : ChangePercents, volume_spike : VolumeSpikes,
     trading_halt : BOOLEAN, social_mentions : SocialMentions,
     float_shares : FloatShares, short_ratio : ShortRatios]

Without(d, key) == [k \in DOMAIN d \ {key} |-> d[k]]

\* Snapshots lacking one optional key.
PartialSnapshots ==
    {Without(d, key) :
        d \in {f \in FullSnapshots : f.change_percent = 500 /\ f.volume_spike = 20},
        key \in {"social_mentions", "float_shares", "short_ratio"}}

Snapshots == FullSnapshots \cup PartialSnapshots

UrgencyScores == {0, 59, 60, 68, 69, 70, 79, 80, 89, 90, 100}

NoArgs == [score |-> 0, has_halt |-> FALSE, volume_spike |-> 0, change_percent |-> 0]

UrgencyArgs ==
    [score : UrgencyScores, has_halt : BOOLEAN, volume_spike : VolumeSpikes,
     change_percent : ChangePercents]

\* The empty dict: no snapshot is being scored.
NoSnapshot == [k \in {} |-> 0]

----------------------------------------------------------------------------
(* Steps of the scoring engine *)

ScoreIdle ==
    /\ data = NoSnapshot
    /\ squeeze_score = 0
    /\ urgency_args = NoArgs
    /\ urgency = "NONE"
    /\ score_pc = "idle"

ScoreInit ==
    /\ squeeze_score = 0
    /\ urgency = "NONE"
    /\ \/ /\ score_pc = "input"
          /\ data \in Snapshots
          /\ urgency_args = NoArgs
       \/ /\ score_pc = "args"
          /\ data = NoSnapshot
          /\ urgency_args \in UrgencyArgs

\* squeeze_score = self._calculate_enhanced_squeeze_score({...})
CalculateScore ==
    /\ score_pc = "input"
    /\ squeeze_score' = _calculate_enhanced_squeeze_score(data)
    /\ score_pc' = "scored"
    /\ UNCHANGED <<data, urgency_args, urgency>>
    /\ UNCHANGED not_score_vars

\* urgency = self._determine_urgency(squeeze_score, halt_info is not None,
\*                                   volume_spike, abs(change_percent))
\* The same dict handed to _calculate_enhanced_squeeze_score a second time.
CalculateScoreAgain ==
    /\ score_pc = "scored"
    /\ squeeze_score' = _calculate_enhanced_squeeze_score(data)
    /\ score_pc' = "rescored"
    /\ UNCHANGED <<data, urgency_args, urgency>>
    /\ UNCHANGED not_score_vars

DetermineUrgency ==
    /\ score_pc \in {"scored", "rescored"}
    /\ LET args == [score |-> squeeze_score,
                    has_halt |-> Get(data, "trading_halt", FALSE),
                    volume_spike |-> Get(data, "volume_spike", 1),
                    change_percent |-> Abs(Get(data, "change_percent", 0))]
       IN /\ urgency_args' = args
          /\ urgency' = _determine_urgency(args.score, args.has_halt,
                                           args.volume_spike, args.change_percent)
    /\ score_pc' = "classified"
    /\ UNCHANGED <<data, squeeze_score>>
    /\ UNCHANGED not_score_vars

\* _determine_urgency called on its own, with any score.
ClassifyUrgency ==
    /\ score_pc = "args"
    /\ urgency' = _determine_urgency(urgency_args.score, urgency_args.has_halt,
                                     urgency_args.volume_spike,
                                     urgency_args.change_percent)
    /\ score_pc' = "classified"
    /\ UNCHANGED <<data, squeeze_score, urgency_args>>
    /\ UNCHANGED not_score_vars

ScoreNext ==
    CalculateScore \/ CalculateScoreAgain \/ DetermineUrgency \/ ClassifyUrgency

----------------------------------------------------------------------------
(* Exit-signal analyzer: PortfolioMonitor *)

\* A real number num/den with den > 0; the code's floats, kept exact.
Ratio(n, d) == [num |-> n, den |-> d]

\* ratio >= k, ratio <= k and ratio < k for an integer k
RatioGE(r, k) == r.num >= k * r.den

RatioLE(r, k) == r.num <= k * r.den

RatioLT(r, k) == r.num < k * r.den

\* series.tail(n) and series.head(n)
TailN(s, n) == SubSeq(s, Max(1, Len(s) - n + 1), Len(s))

HeadN(s, n) == SubSeq(s, 1, Min(n, Len(s)))

Column(h, field) == [i \in 1..Len(h) |-> h[i][field]]

\* series.max()
SeqMax(s) == CHOOSE m \in {s[i] : i \in 1..Len(s)} : \A i \in 1..Len(s) : s[i] <= m

RECURSIVE SeqSum(_)
SeqSum(s) == IF s = <<>> THEN 0 ELSE s[1] + SeqSum(Tail(s))

\* Python truthiness of an optional number: None and 0 are false.
Truthy(v) == ~IsNull(v) /\ Val(v) # 0

\* self.exit_thresholds, the fractions written as percentages
exit_thresholds ==
    [quick_drop |-> 8, volume_drop |-> 60, momentum_loss |-> 5, trailing_stop |-> 15,
     profit_protection_1 |-> [gain |-> 100, drop |-> 5],
     profit_protection_2 |-> [gain |-> 50, drop |-> 7],
     profit_protection_3 |-> [gain |-> 25, drop |-> 10]]

\* The checks return None or one event; here the list of the events returned.

\* Mutant: the quick-drop check without its recent-trend confirmation.
QuickDropUnconfirmed(h, drop_from_high) ==
    IF RatioGE(drop_from_high, exit_thresholds.quick_drop)
    THEN <<[type |-> "quick_drop", urgency |-> 95, action |-> "SELL IMMEDIATELY"]>>
    ELSE <<>>

\* 1. QUICK DROP CHECK.  recent_trend compares the last close with the close
\* two candles before it; a zero divisor gives inf or nan, never < -0.05.
QuickDropCheck(h, drop_from_high) ==
    LET last_5_candles == TailN(Column(h, "Close"), 5)
        n == Len(last_5_candles)
    IN IF /\ RatioGE(drop_from_high, exit_thresholds.quick_drop)
          /\ n >= 3
          /\ last_5_candles[n - 2] > 0
          /\ RatioLT(Ratio((last_5_candles[n] - last_5_candles[n - 2]) * 100,
                           last_5_candles[n - 2]), -5)
       THEN <<[type |-> "quick_drop", urgency |-> 95, action |-> "SELL IMMEDIATELY"]>>
       ELSE <<>>

_check_volume_exhaustion(h) ==
    LET volumes == TailN(Column(h, "Volume"), 30)
    IN IF Len(volumes) < 10 THEN <<>>
       ELSE LET peak_volume == SeqMax(volumes)
                current_volume == volumes[Len(volumes)]
                volume_decline ==
                    IF peak_volume > 0
                    THEN Ratio((peak_volume - current_volume) * 100, peak_volume)
                    ELSE Ratio(0, 1)
            IN IF RatioGE(volume_decline, exit_thresholds.volume_drop)
               THEN <<[type |-> "volume_exhaustion", urgency |-> 80,
                       action |-> "SELL SOON"]>>
               ELSE <<>>

\* recent_trend = mean of tail(5), earlier_trend = mean of head(10) of the last
\* 20 closes; (recent - earlier) / earlier = (2 * sum5 - sum10) / sum10.
_check_momentum_reversal(h) ==
    LET closes == TailN(Column(h, "Close"), 20)
    IN IF Len(closes) < 15 THEN <<>>
       ELSE LET recent_sum == SeqSum(TailN(closes, 5))
                earlier_sum == SeqSum(HeadN(closes, 10))
                momentum_change ==
                    IF earlier_sum > 0
                    THEN Ratio((2 * recent_sum - earlier_sum) * 100, earlier_sum)
                    ELSE Ratio(0, 1)
            IN IF RatioLE(momentum_change, -exit_thresholds.momentum_loss)
               THEN <<[type |-> "momentum_reversal", urgency |-> 70,
                       action |-> "PREPARE TO SELL"]>>
               ELSE <<>>

ProfitEvent(urg, config) ==
    <<[type |-> "profit_protection", urgency |-> urg,
       action |-> "SELL TO PROTECT GAINS",
       gain_level |-> config.gain, drop_trigger |-> config.drop]>>

ProfitTierHolds(config, current_gain, drop_from_high) ==
    RatioGE(current_gain, config.gain) /\ RatioGE(drop_from_high, config.drop)

\* Mutant: the loop visits the tiers in the order 3, 2, 1.
CheckProfitProtectionReversed(current_gain, drop_from_high) ==
    IF ProfitTierHolds(exit_thresholds.profit_protection_3, current_gain, drop_from_high)
    THEN ProfitEvent(65, exit_thresholds.profit_protection_3)
    ELSE IF ProfitTierHolds(exit_thresholds.profit_protection_2, current_gain,
                            drop_from_high)
    THEN ProfitEvent(75, exit_thresholds.profit_protection_2)
    ELSE IF ProfitTierHolds(exit_thresholds.profit_protection_1, current_gain,
                            drop_from_high)
    THEN ProfitEvent(85, exit_thresholds.profit_protection_1)
    ELSE <<>>

\* The for loop returns at the first tier whose two conditions hold.
_check_profit_protection(current_gain, drop_from_high) ==
    IF ProfitTierHolds(exit_thresholds.profit_protection_1, current_gain, drop_from_high)
    THEN ProfitEvent(85, exit_thresholds.profit_protection_1)
    ELSE IF ProfitTierHolds(exit_thresholds.profit_protection_2, current_gain,
                            drop_from_high)
    THEN ProfitEvent(75, exit_thresholds.profit_protection_2)
    ELSE IF ProfitTierHolds(exit_thresholds.profit_protection_3, current_gain,
                            drop_from_high)
    THEN ProfitEvent(65, exit_thresholds.profit_protection_3)
    ELSE <<>>

\* Mutant: the stop is compared with the quick-drop threshold (8%).
CheckTrailingStopWrongThreshold(recent_high, current_price) ==
    IF recent_high <= 0 THEN <<>>
    ELSE IF RatioGE(Ratio((recent_high - current_price) * 100, recent_high),
                    exit_thresholds.quick_drop)
    THEN <<[type |-> "trailing_stop", urgency |-> 90,
            action |-> "SELL NOW - STOP LOSS TRIGGERED",
            stop_level |-> recent_high * (100 - exit_thresholds.trailing_stop)]>>
    ELSE <<>>

\* stop_level is in hundredths of a cent: recent_high * (1 - 0.15).
_check_trailing_stop(recent_high, current_price) ==
    IF recent_high <= 0 THEN <<>>
    ELSE IF RatioGE(Ratio((recent_high - current_price) * 100, recent_high),
                    exit_thresholds.trailing_stop)
    THEN <<[type |-> "trailing_stop", urgency |-> 90,
            action |-> "SELL NOW - STOP LOSS TRIGGERED",
            stop_level |-> recent_high * (100 - exit_thresholds.trailing_stop)]>>
    ELSE <<>>

_get_exit_recommendation(urg) ==
    IF urg >= 90 THEN [action |-> "SELL IMMEDIATELY", urgency_level |-> "CRITICAL"]
    ELSE IF urg >= 80 THEN [action |-> "SELL NOW", urgency_level |-> "HIGH"]
    ELSE IF urg >= 70 THEN [action |-> "PREPARE TO SELL", urgency_level |-> "MEDIUM"]
    ELSE IF urg >= 60 THEN [action |-> "WATCH CLOSELY", urgency_level |-> "LOW"]
    ELSE [action |-> "HOLD", urgency_level |-> "NONE"]

\* Mutant: the second bucket starts at 85.
GetTimeToActShiftedBand(urg) ==
    IF urg >= 90 THEN "IMMEDIATELY - Within 1-2 minutes"
    ELSE IF urg >= 85 THEN "VERY SOON - Within 5-10 minutes"
    ELSE IF urg >= 70 THEN "SOON - Within 15-30 minutes"
    ELSE IF urg >= 60 THEN "MONITOR - Next 1-2 hours"
    ELSE "NO RUSH - Continue monitoring"

_get_time_to_act(urg) ==
    IF urg >= 90 THEN "IMMEDIATELY - Within 1-2 minutes"
    ELSE IF urg >= 80 THEN "VERY SOON - Within 5-10 minutes"
    ELSE IF urg >= 70 THEN "SOON - Within 15-30 minutes"
    ELSE IF urg >= 60 THEN "MONITOR - Next 1-2 hours"
    ELSE "NO RUSH - Continue monitoring"

\* max_urgency = max(max_urgency, urgency) after each append, from 0.
RECURSIVE RunningMax(_, _)
RunningMax(events, i) ==
    IF i = 0 THEN 0 ELSE Max(RunningMax(events, i - 1), events[i].urgency)

\* The regular-session body of analyze_stock_exit, for a history of >= 10 candles.
RegularExit(h, avg, qty) ==
    LET current_price == h[Len(h)].Close
        recent_high == SeqMax(TailN(Column(h, "High"), 60))
        drop_from_high ==
            IF recent_high > 0
            THEN Ratio((recent_high - current_price) * 100, recent_high)
            ELSE Ratio(0, 1)
        current_gain ==
            IF Truthy(avg)
            THEN Ratio((current_price - Val(avg)) * 100, Val(avg))
            ELSE Ratio(0, 1)
        exit_signals ==
            QuickDropCheck(h, drop_from_high)
            \o _check_volume_exhaustion(h)
            \o _check_momentum_reversal(h)
            \o (IF Truthy(avg)
                THEN _check_profit_protection(current_gain, drop_from_high)
                ELSE <<>>)
            \o _check_trailing_stop(recent_high, current_price)
        max_urgency == RunningMax(exit_signals, Len(exit_signals))
    IN IF exit_signals # <<>>
       THEN [current_price |-> current_price,
             avg_price |-> avg,
             current_gain |-> current_gain,
             recent_high |-> recent_high,
             drop_from_high |-> drop_from_high,
             quantity |-> qty,
             position_value |-> IF qty > 0 THEN current_price * qty ELSE 0,
             exit_signals |-> exit_signals,
             urgency |-> max_urgency,
             recommendation |-> _get_exit_recommendation(max_urgency),
             time_to_act |-> _get_time_to_act(max_urgency),
             market_hours |-> TRUE]
       ELSE None

\* _analyze_after_hours_exit; change_percent is carried as its integer part.
_analyze_after_hours_exit(current_data, avg, qty) ==
    IF current_data = None
    THEN [status |-> "AFTER_HOURS_NO_DATA", urgency |-> 0, after_hours |-> TRUE]
    ELSE LET current_price == current_data.price
             after_hours_change == Get(current_data, "change_percent", 0)
             current_gain ==
                 IF Truthy(avg)
                 THEN Ratio((current_price - Val(avg)) * 100, Val(avg))
                 ELSE Ratio(0, 1)
             urg == IF after_hours_change <= -15 THEN 80
                    ELSE IF after_hours_change >= 100 THEN 30
                    ELSE IF after_hours_change >= 50 THEN 20
                    ELSE 0
             signals ==
                 IF after_hours_change <= -15
                 THEN <<[type |-> "after_hours_drop",
                         action |-> "MONITOR CLOSELY - Consider exit at market open"]>>
                 ELSE IF after_hours_change >= 100
                 THEN <<[type |-> "after_hours_surge",
                         action |-> "MONITOR - Do NOT sell during squeeze"]>>
                 ELSE IF after_hours_change >= 50
                 THEN <<[type |-> "after_hours_gain",
                         action |-> "POSITIVE - Monitor for continuation"]>>
                 ELSE <<>>
         IN IF signals # <<>>
            THEN [current_price |-> current_price,
                  regular_market_price |-> current_data.regular_price,
                  after_hours_change |-> after_hours_change,
                  current_gain |-> current_gain,
                  avg_price |-> avg,
                  quantity |-> qty,
                  position_value |-> IF qty > 0 THEN current_price * qty ELSE 0,
                  exit_signals |-> signals,
                  urgency |-> urg,
                  after_hours |-> TRUE,
                  recommendation |->
                      [action |-> IF urg < 50 THEN "MONITOR" ELSE "PREPARE"]]
            ELSE None

----------------------------------------------------------------------------
(* Inputs of the exit-signal analyzer *)

BaseClose == 1000

BaseVolume == 500

PeakVolume == 1000

\* A history of n candles, described from its end (k = 0 is the last candle):
\* the last close is c1, the two before it c3; the candle at k = 5 reached the
\* high peak, the oldest candle the high old_high; the candle at k = 7 has
\* the peak volume and the last one the volume vc.
MakeHist(n, c1, c3, peak, old_high, vc) ==
    [i \in 1..n |->
        LET k == n - i
            close == IF k = 0 THEN c1 ELSE IF k <= 2 THEN c3 ELSE BaseClose
        IN [Close |-> close,
            High |-> IF k = 5 THEN Max(peak, close)
                     ELSE IF i = 1 THEN Max(old_high, close)
                     ELSE close,
            Volume |-> IF k = 0 THEN vc ELSE IF k = 7 THEN PeakVolume ELSE BaseVolume]]

HistLens == {0, 9, 10, 15, 20, 60, 61}

LastCloses == {1000, 960, 950, 940, 930, 920, 900, 850, 840}

Peaks == {1000, 1100}

OldHighs == {1000, 5000}

LastVolumes == {1000, 500, 401, 400}

\* Ten candles without a price (no trade printed).
ZeroHist == [i \in 1..10 |-> [Close |-> 0, High |-> 0, Volume |-> BaseVolume]]

\* A history of n candles whose five oldest closed at old and whose five
\* latest closed at recent, the others at BaseClose.
StepHist(n, old, recent) ==
    [i \in 1..n |->
        LET close == IF i <= 5 THEN old
                     ELSE IF i > n - 5 THEN recent
                     ELSE BaseClose
        IN [Close |-> close, High |-> close, Volume |-> BaseVolume]]

\* Histories with an old rally or an old dip behind a flat stretch.
StepHists ==
    {StepHist(n, old, recent) :
        n \in {15, 16, 20, 25}, old \in {1200, 800}, recent \in {1000, 940}}

Hists ==
    {MakeHist(n, c1, c3, peak, old_high, vc) :
        n \in HistLens, c1 \in LastCloses, c3 \in {BaseClose, 900},
        peak \in Peaks, old_high \in OldHighs, vc \in LastVolumes}
    \cup {ZeroHist}
    \cup StepHists

AvgPrices == {Null, Num(0), Num(427), Num(475), Num(600), Num(700), Num(1000)}

Quantities == {0, 10}

AfterHoursChanges == {-20, -15, -14, 0, 49, 50, 99, 100, 150}

AfterHoursQuotes ==
    {None} \cup
    {[price |-> 900, regular_price |-> 1000, change_percent |-> c] :
        c \in AfterHoursChanges}

----------------------------------------------------------------------------
(* Steps of the exit-signal analyzer *)

ExitIdle ==
    /\ market_hours = FALSE
    /\ fetch_raises = FALSE
    /\ hist = <<>>
    /\ avg_price = Null
    /\ quantity = 0
    /\ ah_quote = None
    /\ exit_result = None
    /\ price_history = <<>>
    /\ volume_history = <<>>
    /\ exit_pc = "idle"

\* One call analyze_stock_exit(symbol, avg_price, quantity) is about to run.
ExitInit ==
    /\ exit_result = None
    /\ price_history = <<>>
    /\ volume_history = <<>>
    /\ exit_pc = "input"
    /\ avg_price \in AvgPrices
    /\ \/ /\ market_hours = TRUE
          /\ fetch_raises = FALSE
          /\ hist \in Hists
          /\ quantity \in Quantities
          /\ ah_quote = None
       \/ /\ market_hours = TRUE
          /\ fetch_raises = TRUE
          /\ hist = <<>>
          /\ quantity = 10
          /\ ah_quote = None
       \/ /\ market_hours = FALSE
          /\ fetch_raises = FALSE
          /\ hist \in {MakeHist(n, 900, BaseClose, 1100, 1000, 500) : n \in {0, 9, 20}}
          /\ quantity = 10
          /\ ah_quote \in AfterHoursQuotes

\* deque(maxlen=100).extend(...)
DequeExtend(dq, items) == TailN(dq \o items, 100)

\* Mutant: only an empty history counts as insufficient.
InsufficientDataEmptyOnly(h) == Len(h) = 0

\* hist.empty or len(hist) < 10
InsufficientData(h) == Len(h) = 0 \/ Len(h) < 10

\* analyze_stock_exit when is_market_hours() is true.
AnalyzeRegular ==
    /\ exit_pc = "input"
    /\ market_hours
    /\ IF fetch_raises \/ InsufficientData(hist)
       THEN /\ exit_result' = None
            /\ UNCHANGED <<price_history, volume_history>>
       ELSE /\ exit_result' = RegularExit(hist, avg_price, quantity)
            /\ price_history' =
                   DequeExtend(price_history, TailN(Column(hist, "Close"), 10))
            /\ volume_history' =
                   DequeExtend(volume_history, TailN(Column(hist, "Volume"), 10))
    /\ exit_pc' = "done"
    /\ UNCHANGED <<market_hours, fetch_raises, hist, avg_price, quantity, ah_quote>>
    /\ UNCHANGED not_exit_vars

\* Mutant: the after-hours analysis runs whatever is_market_hours() says.
AnalyzeAfterHoursUngated ==
    /\ exit_pc = "input"
    /\ exit_result' = _analyze_after_hours_exit(ah_quote, avg_price, quantity)
    /\ exit_pc' = "done"
    /\ UNCHANGED <<market_hours, fetch_raises, hist, avg_price, quantity, ah_quote,
                   price_history, volume_history>>
    /\ UNCHANGED not_exit_vars

\* analyze_stock_exit when is_market_hours() is false: the after-hours analysis.
AnalyzeAfterHours ==
    /\ exit_pc = "input"
    /\ ~market_hours
    /\ exit_result' = _analyze_after_hours_exit(ah_quote, avg_price, quantity)
    /\ exit_pc' = "done"
    /\ UNCHANGED <<market_hours, fetch_raises, hist, avg_price, quantity, ah_quote,
                   price_history, volume_history>>
    /\ UNCHANGED not_exit_vars

ExitNext == AnalyzeRegular \/ AnalyzeAfterHours

----------------------------------------------------------------------------
(* Market-wide scanner: MarketWideSqueezeDetector *)

\* self.thresholds; max_price is in cents.
thresholds ==
    [min_price_change |-> 50, min_volume_spike |-> 2, min_squeeze_score |-> 60,
     max_price |-> 10000, min_mentions |-> 10]

\* batch_size = 10
batch_size == 10

\* return squeeze_opportunities[:20]
TopN == 20

\* timedelta(minutes=5), in minutes
HaltCacheMinutes == 5

\* The integer part of ((current_price - prev_close) / prev_close) * 100.
ChangePercent(q) ==
    IF q.prev_close > 0
    THEN IF q.price >= q.prev_close
         THEN ((q.price - q.prev_close) * 100) \div q.prev_close
         ELSE -(((q.prev_close - q.price) * 100) \div q.prev_close)
    ELSE 0

\* The integer part of current_volume / avg_volume_20, where avg_volume_20 is
\* the mean volume_sum / n20 of the last n20 = min(20, len(hist)) volumes.
VolumeSpike(q) ==
    IF q.volume_sum > 0 THEN (q.current_volume * q.n20) \div q.volume_sum ELSE 1

\* The symbols of ['GME', 'AMC', 'TSLA', 'NVDA'] among the model's symbols.
MemeSymbols == {4}

\* self.meme_watchlist does not exist: for every other symbol the elif raises
\* AttributeError and the except branch returns 0.  draw is what
\* np.random.randint(500, 2000) gives.
_get_social_mentions(symbol, draw) == IF symbol \in MemeSymbols THEN draw ELSE 0

\* Mutant: a price equal to the ceiling is skipped too.
PriceTooHighInclusive(price) == price >= thresholds.max_price

\* current_price > self.thresholds['max_price']
PriceTooHigh(price) == price > thresholds.max_price

\* halt_info is not None
HaltedIn(halts, symbol) == \E i \in 1..Len(halts) : halts[i].symbol = symbol

\* None, or the opportunity dict (the fields the scan and its callers read).
\* q.avail is false when the history is empty or shorter than 2 rows;
\* q.raises is true when yfinance raises, which the except branch turns into
\* None.
_analyze_individual_stock(symbol, q, min_change, min_sc, halts) ==
    IF q.raises THEN None
    ELSE IF ~q.avail THEN None
    ELSE IF PriceTooHigh(q.price) THEN None
    ELSE IF Abs(ChangePercent(q)) < min_change THEN None
    ELSE IF VolumeSpike(q) < thresholds.min_volume_spike THEN None
    ELSE
        LET change_percent == ChangePercent(q)
            volume_spike == VolumeSpike(q)
            halted == HaltedIn(halts, symbol)
            social_mentions == _get_social_mentions(symbol, q.mentions_draw)
            score == _calculate_enhanced_squeeze_score(
                         [change_percent |-> change_percent,
                          volume_spike |-> volume_spike,
                          float_shares |-> q.float_shares,
                          short_ratio |-> q.short_ratio,
                          trading_halt |-> halted,
                          social_mentions |-> Num(social_mentions)])
            urg == _determine_urgency(score, halted, volume_spike, Abs(change_percent))
        IN IF score < min_sc THEN None
           ELSE [symbol |-> symbol,
                 price |-> q.price,
                 change_percent |-> change_percent,
                 squeeze_score |-> score,
                 volume_spike |-> volume_spike,
                 float_shares |-> q.float_shares,
                 short_ratio |-> q.short_ratio,
                 urgency |-> urg,
                 urgency_priority |-> _get_urgency_priority(urg),
                 trading_halt |-> halted,
                 social_mentions |-> social_mentions]

\* Mutant: a symbol whose analysis raises ends the batch.
RECURSIVE AnalyzeBatchAbortOnError(_, _, _, _, _)
AnalyzeBatchAbortOnError(symbols, mkt, min_change, min_sc, halts) ==
    IF symbols = <<>> THEN <<>>
    ELSE IF mkt[symbols[1]].raises THEN <<>>
    ELSE LET opportunity ==
                 _analyze_individual_stock(symbols[1], mkt[symbols[1]],
                                           min_change, min_sc, halts)
             rest == AnalyzeBatchAbortOnError(Tail(symbols), mkt, min_change,
                                              min_sc, halts)
         IN IF opportunity # None THEN <<opportunity>> \o rest ELSE rest

\* _analyze_batch: the opportunities of the symbols of one batch, in order.
RECURSIVE _analyze_batch(_, _, _, _, _)
_analyze_batch(symbols, mkt, min_change, min_sc, halts) ==
    IF symbols = <<>> THEN <<>>
    ELSE LET opportunity ==
                 _analyze_individual_stock(symbols[1], mkt[symbols[1]],
                                           min_change, min_sc, halts)
             rest == _analyze_batch(Tail(symbols), mkt, min_change, min_sc, halts)
         IN IF opportunity # None THEN <<opportunity>> \o rest ELSE rest

\* The sort key (urgency_priority, squeeze_score), compared as tuples.
KeyLess(a, b) ==
    \/ Get(a, "urgency_priority", 0) < Get(b, "urgency_priority", 0)
    \/ /\ Get(a, "urgency_priority", 0) = Get(b, "urgency_priority", 0)
       /\ Get(a, "squeeze_score", 0) < Get(b, "squeeze_score", 0)

\* x put into a list in non-increasing key order, behind its equals.
RECURSIVE InsertDesc(_, _)
InsertDesc(sorted, x) ==
    IF sorted = <<>> THEN <<x>>
    ELSE IF KeyLess(sorted[1], x) THEN <<x>> \o sorted
    ELSE <<sorted[1]>> \o InsertDesc(Tail(sorted), x)

\* x put into a list in non-decreasing key order, behind its equals.
RECURSIVE InsertAsc(_, _)
InsertAsc(sorted, x) ==
    IF sorted = <<>> THEN <<x>>
    ELSE IF KeyLess(x, sorted[1]) THEN <<x>> \o sorted
    ELSE <<sorted[1]>> \o InsertAsc(Tail(sorted), x)

RECURSIVE SortAscFrom(_, _)
SortAscFrom(sorted, rest) ==
    IF rest = <<>> THEN sorted
    ELSE SortAscFrom(InsertAsc(sorted, rest[1]), Tail(rest))

RECURSIVE SortDescFrom(_, _)
SortDescFrom(sorted, rest) ==
    IF rest = <<>> THEN sorted
    ELSE SortDescFrom(InsertDesc(sorted, rest[1]), Tail(rest))

\* Mutant: the sort without reverse=True.
SortAscending(opportunities) == SortAscFrom(<<>>, opportunities)

\* list.sort(key=..., reverse=True): stable, non-increasing.
SortByUrgencyAndScore(opportunities) == SortDescFrom(<<>>, opportunities)

\* _get_yahoo_movers: a failure is caught inside and [] is returned.
_get_yahoo_movers(listed, fails) == IF fails THEN {} ELSE listed

\* _get_finviz_movers: a failure is caught inside and [] is returned.
_get_finviz_movers(listed, fails) == IF fails THEN {} ELSE listed

\* get_trading_halts with a cache that still counts as recent when it is
\* exactly five minutes old.
GetTradingHaltsInclusiveWindow(cache, last_update, time, source, source_fails) ==
    IF ~IsNull(last_update) /\ time - Val(last_update) <= HaltCacheMinutes
    THEN <<cache, cache, last_update, FALSE>>
    ELSE LET halts == IF source_fails THEN <<>> ELSE source
         IN <<halts, halts, Num(time), TRUE>>

\* get_trading_halts: <<what it returns, the cache, last_halt_update, whether
\* the NASDAQ page was requested>>.  A failure of the request is caught
\* inside and leaves halts = [].
GetTradingHalts(cache, last_update, time, source, source_fails) ==
    IF ~IsNull(last_update) /\ time - Val(last_update) < HaltCacheMinutes
    THEN <<cache, cache, last_update, FALSE>>
    ELSE LET halts == IF source_fails THEN <<>> ELSE source
         IN <<halts, halts, Num(time), TRUE>>

----------------------------------------------------------------------------
(* Inputs of the scanner *)

\* The number of ticker symbols of the model; symbols are 1..NumSymbols.
NumSymbols == 22

Symbols == 1..NumSymbols

\* What yfinance answers for one symbol: avail (the history has at least 2
\* rows and nothing raised), the last two closes in cents, the last volume,
\* the sum of the last n20 volumes, floatShares and shortRatio (None or a
\* number) and the mention count drawn for a meme symbol.
Quote(price, prev_close, current_volume, float_shares, short_ratio, draw) ==
    [avail |-> TRUE, raises |-> FALSE, price |-> price, prev_close |-> prev_close,
     current_volume |-> current_volume, volume_sum |-> 2000, n20 |-> 20,
     float_shares |-> float_shares, short_ratio |-> short_ratio,
     mentions_draw |-> draw]

\* +500%, 20x volume: 65 points, 85 when halted.
QHot == Quote(6000, 1000, 2000, Num(5000000), Num(10), 1999)

\* +150%, 10x volume: 50 points, 70 when halted.
QExample == Quote(2500, 1000, 1000, Num(5000000), Num(10), 500)

\* +150%, 5x volume: 40 points, 60 when halted.
QWarm == Quote(2500, 1000, 500, Num(5000000), Num(0), 500)

\* +20%
QQuiet == Quote(1200, 1000, 1000, Num(5000000), Num(10), 500)

\* +150% on 1x volume
QThin == Quote(2500, 1000, 100, Num(5000000), Num(10), 500)

\* +200% at 150.00
QExpensive == Quote(15000, 5000, 1000, Num(5000000), Num(10), 500)

\* +150% at exactly 100.00
QAtCeiling == Quote(10000, 4000, 1000, Num(5000000), Num(10), 500)

\* -60%
QFalling == Quote(400, 1000, 1000, Num(60000000), Num(5), 500)

\* info carries floatShares: None
QNullInfo == [QHot EXCEPT !.float_shares = Null]

\* a previous close of 0
QNoPrev == [QExample EXCEPT !.prev_close = 0]

\* no volume at all in the last 20 candles
QNoVolume == [QExample EXCEPT !.current_volume = 0, !.volume_sum = 0]

\* an empty history
QUnavailable == [QExample EXCEPT !.avail = FALSE]

\* an exception inside yfinance
QRaises == [QHot EXCEPT !.raises = TRUE]

QuoteKinds ==
    <<QHot, QExample, QWarm, QQuiet, QThin, QExpensive, QAtCeiling, QFalling,
      QNullInfo, QNoPrev, QNoVolume, QUnavailable, QRaises>>

\* Symbol s has the kind (a*s + b) mod Len(QuoteKinds).
MarketCycle(a, b) ==
    [s \in Symbols |-> QuoteKinds[((a * s + b) % Len(QuoteKinds)) + 1]]

\* Every symbol is one of the three movers.
MarketMovers == [s \in Symbols |-> QuoteKinds[(s % 3) + 1]]

\* Symbol 1 is the one mover among three candidates.
MarketExample ==
    [s \in Symbols |->
        IF s = 1 THEN QExample ELSE IF s = 2 THEN QQuiet
        ELSE IF s = 3 THEN QThin ELSE QUnavailable]

Markets == {MarketCycle(1, 0), MarketCycle(5, 3), MarketMovers, MarketExample}

\* The symbols of a set as a list, ascending from lo.
RECURSIVE Ascending(_, _)
Ascending(S, lo) ==
    IF lo > NumSymbols THEN <<>>
    ELSE IF lo \in S THEN <<lo>> \o Ascending(S, lo + 1)
    ELSE Ascending(S, lo + 1)

Reverse(s) == [i \in 1..Len(s) |-> s[Len(s) + 1 - i]]

\* list(all_candidates): the iteration order of a set is arbitrary; two
\* orders are tried.
ListOrders(S) == {Ascending(S, 1), Reverse(Ascending(S, 1))}

\* The halt dicts of a set of symbols.
HaltList(S) == [i \in 1..Len(Ascending(S, 1)) |-> [symbol |-> Ascending(S, 1)[i]]]

MoverSets == {{}, {1, 2, 3}, Symbols}

HaltSets == {{}, {1}, {s \in Symbols : s % 2 = 0}, Symbols}

ScanArgs ==
    {[min_change_percent |-> 100, min_score |-> 60],
     [min_change_percent |-> 50, min_score |-> 0],
     [min_change_percent |-> 0, min_score |-> 0]}

\* The detector before the scan: as constructed, or 4, 5 or 6 minutes after
\* an earlier scan that found symbol 2 halted.
CacheStates ==
    {[cache |-> <<>>, last |-> Null, now |-> 0],
     [cache |-> HaltList({2}), last |-> Num(0), now |-> 4],
     [cache |-> HaltList({2}), last |-> Num(0), now |-> 5],
     [cache |-> HaltList({2}), last |-> Num(0), now |-> 6]}

----------------------------------------------------------------------------
(* Steps of the scanner *)

ScanIdle ==
    /\ market = MarketExample
    /\ yahoo_movers = {}
    /\ finviz_movers = {}
    /\ yahoo_fails = FALSE
    /\ finviz_fails = FALSE
    /\ halt_source = <<>>
    /\ halt_fetch_fails = FALSE
    /\ halt_fetched = FALSE
    /\ analyzed = <<>>
    /\ pauses = 0
    /\ now = 0
    /\ trading_halts_cache = <<>>
    /\ last_halt_update = Null
    /\ min_change_percent = 100
    /\ min_score = 60
    /\ trading_halts = <<>>
    /\ candidates_list = <<>>
    /\ batch_start = 0
    /\ squeeze_opportunities = <<>>
    /\ scan_result = <<>>
    /\ scan_pc = "idle"

\* One call get_squeeze_opportunities(min_change_percent, min_score) is about
\* to run.
ScanInit ==
    /\ market \in Markets
    /\ \/ yahoo_movers \in MoverSets /\ yahoo_fails = FALSE
       \/ yahoo_movers = Symbols /\ yahoo_fails = TRUE
    /\ \/ finviz_movers \in {{}, {2, 3}} /\ finviz_fails = FALSE
       \/ finviz_movers = {2, 3} /\ finviz_fails = TRUE
    /\ halt_source \in {HaltList(S) : S \in HaltSets}
    /\ halt_fetch_fails \in BOOLEAN
    /\ halt_fetched = FALSE
    /\ analyzed = <<>>
    /\ pauses = 0
    /\ \E c \in CacheStates :
          /\ now = c.now
          /\ trading_halts_cache = c.cache
          /\ last_halt_update = c.last
    /\ \E a \in ScanArgs :
          /\ min_change_percent = a.min_change_percent
          /\ min_score = a.min_score
    /\ trading_halts = <<>>
    /\ candidates_list = <<>>
    /\ batch_start = 0
    /\ squeeze_opportunities = <<>>
    /\ scan_result = <<>>
    /\ scan_pc = "start"

\* Lines 51-69: the three sources are asked, the candidates are gathered and
\* listed.
ScanStart ==
    /\ scan_pc = "start"
    /\ LET got == GetTradingHalts(trading_halts_cache, last_halt_update, now,
                                  halt_source, halt_fetch_fails)
           all_candidates ==
               _get_yahoo_movers(yahoo_movers, yahoo_fails)
                   \cup _get_finviz_movers(finviz_movers, finviz_fails)
                   \cup {got[1][i].symbol : i \in 1..Len(got[1])}
       IN /\ trading_halts' = got[1]
          /\ trading_halts_cache' = got[2]
          /\ last_halt_update' = got[3]
          /\ halt_fetched' = got[4]
          /\ candidates_list' \in ListOrders(all_candidates)
          /\ scan_pc' = IF all_candidates = {} THEN "sort" ELSE "batch"
    /\ squeeze_opportunities' = <<>>
    /\ batch_start' = 0
    /\ UNCHANGED <<market, yahoo_movers, finviz_movers, yahoo_fails,
                   finviz_fails, halt_source, halt_fetch_fails, analyzed, pauses, now,
                   min_change_percent, min_score, scan_result>>
    /\ UNCHANGED not_scan_vars

\* Mutant: a batch reaches one symbol into the next one.
AnalyzeBatchOverlapping ==
    /\ scan_pc = "batch"
    /\ LET batch == SubSeq(candidates_list, batch_start + 1,
                           Min(batch_start + batch_size + 1, Len(candidates_list)))
           batch_results == _analyze_batch(batch, market, min_change_percent,
                                           min_score, trading_halts)
       IN /\ squeeze_opportunities' = squeeze_opportunities \o batch_results
          /\ analyzed' = analyzed \o batch
    /\ scan_pc' = IF batch_start + batch_size < Len(candidates_list)
                  THEN "pause" ELSE "sort"
    /\ UNCHANGED <<market, yahoo_movers, finviz_movers, yahoo_fails,
                   finviz_fails, halt_source, halt_fetch_fails, halt_fetched, pauses, now,
                   trading_halts_cache, last_halt_update,
                   min_change_percent, min_score, trading_halts, candidates_list,
                   batch_start, scan_result>>
    /\ UNCHANGED not_scan_vars

\* Lines 72-77: one batch is analyzed and its opportunities are appended.
AnalyzeBatch ==
    /\ scan_pc = "batch"
    /\ LET batch == SubSeq(candidates_list, batch_start + 1,
                           Min(batch_start + batch_size, Len(candidates_list)))
           batch_results == _analyze_batch(batch, market, min_change_percent,
                                           min_score, trading_halts)
       IN /\ squeeze_opportunities' = squeeze_opportunities \o batch_results
          /\ analyzed' = analyzed \o batch
    /\ scan_pc' = IF batch_start + batch_size < Len(candidates_list)
                  THEN "pause" ELSE "sort"
    /\ UNCHANGED <<market, yahoo_movers, finviz_movers, yahoo_fails,
                   finviz_fails, halt_source, halt_fetch_fails, halt_fetched, pauses, now,
                   trading_halts_cache, last_halt_update,
                   min_change_percent, min_score, trading_halts, candidates_list,
                   batch_start, scan_result>>
    /\ UNCHANGED not_scan_vars

\* Line 78: await asyncio.sleep(1), then the next value of i.
BatchPause ==
    /\ scan_pc = "pause"
    /\ batch_start' = batch_start + batch_size
    /\ pauses' = pauses + 1
    /\ scan_pc' = "batch"
    /\ UNCHANGED <<market, yahoo_movers, finviz_movers, yahoo_fails,
                   finviz_fails, halt_source, halt_fetch_fails, halt_fetched, analyzed, now,
                   trading_halts_cache, last_halt_update,
                   min_change_percent, min_score, trading_halts, candidates_list,
                   squeeze_opportunities, scan_result>>
    /\ UNCHANGED not_scan_vars

\* Lines 81-88: the list is sorted in place and its first 20 are returned.
ScanFinish ==
    /\ scan_pc = "sort"
    /\ squeeze_opportunities' = SortByUrgencyAndScore(squeeze_opportunities)
    /\ scan_result' = HeadN(SortByUrgencyAndScore(squeeze_opportunities), TopN)
    /\ scan_pc' = "done"
    /\ UNCHANGED <<market, yahoo_movers, finviz_movers, yahoo_fails,
                   finviz_fails, halt_source, halt_fetch_fails, halt_fetched, analyzed,
                   pauses, now,
                   trading_halts_cache, last_halt_update,
                   min_change_percent, min_score, trading_halts, candidates_list,
                   batch_start>>
    /\ UNCHANGED not_scan_vars

ScanNext == ScanStart \/ AnalyzeBatch \/ BatchPause \/ ScanFinish

----------------------------------------------------------------------------
(* Scheduler loops: main.py *)

\* What analyze_stock_exit returns for a symbol whose market data is md, when
\* is_market_hours() answers open at its entry.  The PortfolioMonitor of an
\* iteration is created by that iteration and dropped at its end, so its
\* price_history and volume_history are not kept.
analyze_stock_exit(open, md, avg, qty) ==
    IF ~open THEN _analyze_after_hours_exit(md.ah_quote, avg, qty)
    ELSE IF md.fetch_raises \/ InsufficientData(md.hist) THEN None
    ELSE RegularExit(md.hist, avg, qty)

\* What yfinance and the Yahoo quote page answer for the symbols held.
MarketData ==
    [AAA |-> [hist |-> MakeHist(20, 840, BaseClose, 1000, 1000, 500),
              fetch_raises |-> FALSE,
              ah_quote |-> [price |-> 800, regular_price |-> 1000,
                            change_percent |-> -20]],
     BBB |-> [hist |-> MakeHist(20, 1000, BaseClose, 1000, 1000, 500),
              fetch_raises |-> FALSE,
              ah_quote |-> [price |-> 2500, regular_price |-> 1000,
                            change_percent |-> 150]],
     CCC |-> [hist |-> MakeHist(9, 1000, BaseClose, 1000, 1000, 500),
              fetch_raises |-> FALSE,
              ah_quote |-> None],
     DDD |-> [hist |-> MakeHist(20, 940, BaseClose, 1000, 1000, 500),
              fetch_raises |-> FALSE,
              ah_quote |-> [price |-> 1000, regular_price |-> 1000,
                            change_percent |-> 0]]]

\* Documents of the 'portfolio' collection.
Doc(symbol, avg) == [symbol |-> symbol, avg_price |-> avg, quantity |-> 10]

\* A document without the 'symbol' field: stock['symbol'] raises KeyError.
DocNoSymbol == [avg_price |-> Num(1000), quantity |-> 10]

Portfolios ==
    {<<>>,
     <<Doc("AAA", Num(1000)), Doc("BBB", Null)>>,
     <<Doc("CCC", Null), Doc("AAA", Null), Doc("DDD", Num(700))>>,
     <<Doc("AAA", Num(1000)), DocNoSymbol, Doc("BBB", Null)>>}

\* The documents with a symbol that some portfolio holds.
HeldStocks ==
    {d \in UNION {{p[i] : i \in 1..Len(p)} : p \in Portfolios} :
        "symbol" \in DOMAIN d}

\* main.py 343-347: what analyze_stock_exit(stock['symbol'],
\* stock.get('avg_price'), stock.get('quantity', 0)) returns for a held
\* stock when is_market_hours() answers open, tabulated.
EvaluationOf ==
    [stock \in HeldStocks, open \in BOOLEAN |->
        analyze_stock_exit(open, MarketData[stock.symbol],
                           Get(stock, "avg_price", Null),
                           Get(stock, "quantity", 0))]

\* What one call get_squeeze_opportunities(100.0, 60) hands to the scanner
\* loop: the number of opportunities it returned.
ScanOutcomes == {<<>>, <<1, 2>>}

LoopNames == {"monitor", "scanner", "cleanup"}

----------------------------------------------------------------------------
(* Steps of the scheduler loops *)

LoopsIdle ==
    /\ market_open = FALSE
    /\ firestore_portfolio = <<>>
    /\ monitor_pc = "idle"
    /\ monitor_sleep = 0
    /\ portfolio = <<>>
    /\ stock_index = 0
    /\ last_exit_signals = None
    /\ stored_exit_signal = None
    /\ critical_alert = FALSE
    /\ scanner_pc = "idle"
    /\ scanner_opportunities = <<>>
    /\ cleanup_pc = "idle"
    /\ failed_loops = {}

\* startup_event has created the three tasks.
LoopsInit ==
    /\ market_open \in BOOLEAN
    /\ firestore_portfolio \in Portfolios
    /\ monitor_pc = "check"
    /\ monitor_sleep = 0
    /\ portfolio = <<>>
    /\ stock_index = 0
    /\ last_exit_signals = None
    /\ stored_exit_signal = None
    /\ critical_alert = FALSE
    /\ scanner_pc = "scan"
    /\ scanner_opportunities = <<>>
    /\ cleanup_pc = "run"
    /\ failed_loops = {}

\* The wall clock passes 9:30 or 16:00 (or a weekend begins or ends).
ClockTick ==
    /\ market_open' = ~market_open
    /\ UNCHANGED <<firestore_portfolio, monitor_pc, monitor_sleep, portfolio,
                   stock_index, last_exit_signals, stored_exit_signal, critical_alert,
                   scanner_pc, scanner_opportunities, cleanup_pc, failed_loops>>
    /\ UNCHANGED not_loop_vars

\* main.py 329-336: the market-hours gate of an iteration.
MonitorCheck ==
    /\ monitor_pc = "check"
    /\ IF ~market_open
       THEN /\ monitor_pc' = "sleep"
            /\ monitor_sleep' = 300
       ELSE /\ monitor_pc' = "fetch"
            /\ UNCHANGED monitor_sleep
    /\ UNCHANGED <<market_open, firestore_portfolio, portfolio, stock_index,
                   last_exit_signals, stored_exit_signal, critical_alert, scanner_pc,
                   scanner_opportunities, cleanup_pc, failed_loops>>
    /\ UNCHANGED not_loop_vars

\* main.py 339: portfolio = await firebase_client.get_portfolio()
MonitorFetch ==
    /\ monitor_pc = "fetch"
    /\ portfolio' = firestore_portfolio
    /\ stock_index' = 0
    /\ monitor_pc' = IF firestore_portfolio = <<>> THEN "close" ELSE "eval"
    /\ UNCHANGED <<market_open, firestore_portfolio, monitor_sleep, last_exit_signals,
                   stored_exit_signal, critical_alert, scanner_pc, scanner_opportunities,
                   cleanup_pc, failed_loops>>
    /\ UNCHANGED not_loop_vars

\* Mutant: every result that is not None is stored.
MonitorEvaluateStoreAll ==
    /\ monitor_pc = "eval"
    /\ LET stock == portfolio[stock_index + 1]
       IN IF "symbol" \notin DOMAIN stock
          THEN /\ monitor_pc' = "sleep"
               /\ monitor_sleep' = 15
               /\ failed_loops' = failed_loops \cup {"monitor"}
               /\ UNCHANGED <<stock_index, last_exit_signals, stored_exit_signal,
                              critical_alert>>
          ELSE LET r == EvaluationOf[stock, market_open]
                   forward == r # None
               IN /\ last_exit_signals' = r
                  /\ stored_exit_signal' = IF forward THEN r ELSE None
                  /\ critical_alert' = (forward /\ Get(r, "urgency", 0) >= 85)
                  /\ stock_index' = stock_index + 1
                  /\ monitor_pc' =
                         IF stock_index + 1 = Len(portfolio) THEN "close" ELSE "eval"
                  /\ UNCHANGED <<monitor_sleep, failed_loops>>
    /\ UNCHANGED <<market_open, firestore_portfolio, portfolio, scanner_pc,
                   scanner_opportunities, cleanup_pc>>
    /\ UNCHANGED not_loop_vars

\* main.py 342-356: one pass of the for loop; a KeyError of stock['symbol']
\* leaves the try block (361-366).
MonitorEvaluate ==
    /\ monitor_pc = "eval"
    /\ LET stock == portfolio[stock_index + 1]
       IN IF "symbol" \notin DOMAIN stock
          THEN /\ monitor_pc' = "sleep"
               /\ monitor_sleep' = 15
               /\ failed_loops' = failed_loops \cup {"monitor"}
               /\ UNCHANGED <<stock_index, last_exit_signals, stored_exit_signal,
                              critical_alert>>
          ELSE LET r == EvaluationOf[stock, market_open]
                   forward == r # None /\ Get(r, "urgency", 0) >= 50
               IN /\ last_exit_signals' = r
                  /\ stored_exit_signal' = IF forward THEN r ELSE None
                  /\ critical_alert' = (forward /\ Get(r, "urgency", 0) >= 85)
                  /\ stock_index' = stock_index + 1
                  /\ monitor_pc' =
                         IF stock_index + 1 = Len(portfolio) THEN "close" ELSE "eval"
                  /\ UNCHANGED <<monitor_sleep, failed_loops>>
    /\ UNCHANGED <<market_open, firestore_portfolio, portfolio, scanner_pc,
                   scanner_opportunities, cleanup_pc>>
    /\ UNCHANGED not_loop_vars

\* main.py 358-366: close_sessions(), then asyncio.sleep(15).
MonitorClose ==
    /\ monitor_pc = "close"
    /\ monitor_pc' = "sleep"
    /\ monitor_sleep' = 15
    /\ UNCHANGED <<market_open, firestore_portfolio, portfolio, stock_index,
                   last_exit_signals, stored_exit_signal, critical_alert, scanner_pc,
                   scanner_opportunities, cleanup_pc, failed_loops>>
    /\ UNCHANGED not_loop_vars

\* The sleep ends and while True starts the next iteration; the locals of
\* the iteration that ended are dead.
MonitorWake ==
    /\ monitor_pc = "sleep"
    /\ monitor_pc' = "check"
    /\ monitor_sleep' = 0
    /\ portfolio' = <<>>
    /\ stock_index' = 0
    /\ last_exit_signals' = None
    /\ stored_exit_signal' = None
    /\ critical_alert' = FALSE
    /\ UNCHANGED <<market_open, firestore_portfolio, scanner_pc, scanner_opportunities,
                   cleanup_pc, failed_loops>>
    /\ UNCHANGED not_loop_vars

MonitorNext ==
    MonitorCheck \/ MonitorFetch \/ MonitorEvaluate \/ MonitorClose \/ MonitorWake

\* main.py 376-379: scanner_opportunities = await get_squeeze_opportunities(100.0, 60)
ScannerScan ==
    /\ scanner_pc = "scan"
    /\ scanner_opportunities' \in ScanOutcomes
    /\ scanner_pc' = IF scanner_opportunities' = <<>> THEN "sleep" ELSE "store"
    /\ UNCHANGED <<market_open, firestore_portfolio, monitor_pc, monitor_sleep,
                   portfolio, stock_index, last_exit_signals, stored_exit_signal,
                   critical_alert, cleanup_pc, failed_loops>>
    /\ UNCHANGED not_loop_vars

\* main.py 382-383: await firebase_client.store_squeeze_opportunity(opp)
ScannerStore ==
    /\ scanner_pc = "store"
    /\ scanner_opportunities' = Tail(scanner_opportunities)
    /\ scanner_pc' = IF Tail(scanner_opportunities) = <<>> THEN "sleep" ELSE "store"
    /\ UNCHANGED <<market_open, firestore_portfolio, monitor_pc, monitor_sleep,
                   portfolio, stock_index, last_exit_signals, stored_exit_signal,
                   critical_alert, cleanup_pc, failed_loops>>
    /\ UNCHANGED not_loop_vars

\* Mutant: the exception leaves the task.
ScannerRaiseUncaught ==
    /\ scanner_pc \in {"scan", "store"}
    /\ scanner_pc' = "crashed"
    /\ scanner_opportunities' = <<>>
    /\ failed_loops' = failed_loops \cup {"scanner"}
    /\ UNCHANGED <<market_open, firestore_portfolio, monitor_pc, monitor_sleep,
                   portfolio, stock_index, last_exit_signals, stored_exit_signal,
                   critical_alert, cleanup_pc>>
    /\ UNCHANGED not_loop_vars

\* main.py 387-391: a statement of the try block raises; the exception is
\* logged and the loop goes to asyncio.sleep(60).
ScannerRaise ==
    /\ scanner_pc \in {"scan", "store"}
    /\ scanner_pc' = "sleep"
    /\ scanner_opportunities' = <<>>
    /\ failed_loops' = failed_loops \cup {"scanner"}
    /\ UNCHANGED <<market_open, firestore_portfolio, monitor_pc, monitor_sleep,
                   portfolio, stock_index, last_exit_signals, stored_exit_signal,
                   critical_alert, cleanup_pc>>
    /\ UNCHANGED not_loop_vars

\* asyncio.sleep(60) ends and while True starts the next iteration.
ScannerWake ==
    /\ scanner_pc = "sleep"
    /\ scanner_pc' = "scan"
    /\ UNCHANGED <<market_open, firestore_portfolio, monitor_pc, monitor_sleep,
                   portfolio, stock_index, last_exit_signals, stored_exit_signal,
                   critical_alert, scanner_opportunities, cleanup_pc, failed_loops>>
    /\ UNCHANGED not_loop_vars

ScannerNext == ScannerScan \/ ScannerStore \/ ScannerRaise \/ ScannerWake

\* main.py 399-402: await firebase_client.cleanup_old_data(cutoff_time)
CleanupRun ==
    /\ cleanup_pc = "run"
    /\ cleanup_pc' = "sleep"
    /\ UNCHANGED <<market_open, firestore_portfolio, monitor_pc, monitor_sleep,
                   portfolio, stock_index, last_exit_signals, stored_exit_signal,
                   critical_alert, scanner_pc, scanner_opportunities, failed_loops>>
    /\ UNCHANGED not_loop_vars

\* main.py 404-408: a statement of the try block raises; the exception is
\* logged and the loop goes to asyncio.sleep(3600).
CleanupRaise ==
    /\ cleanup_pc = "run"
    /\ cleanup_pc' = "sleep"
    /\ failed_loops' = failed_loops \cup {"cleanup"}
    /\ UNCHANGED <<market_open, firestore_portfolio, monitor_pc, monitor_sleep,
                   portfolio, stock_index, last_exit_signals, stored_exit_signal,
                   critical_alert, scanner_pc, scanner_opportunities>>
    /\ UNCHANGED not_loop_vars

\* asyncio.sleep(3600) ends and while True starts the next iteration.
CleanupWake ==
    /\ cleanup_pc = "sleep"
    /\ cleanup_pc' = "run"
    /\ UNCHANGED <<market_open, firestore_portfolio, monitor_pc, monitor_sleep,
                   portfolio, stock_index, last_exit_signals, stored_exit_signal,
                   critical_alert, scanner_pc, scanner_opportunities, failed_loops>>
    /\ UNCHANGED not_loop_vars

CleanupNext == CleanupRun \/ CleanupRaise \/ CleanupWake

LoopsNext == ClockTick \/ MonitorNext \/ ScannerNext \/ CleanupNext

----------------------------------------------------------------------------
(* The rate limiter of StockDataFetcher *)

\* self.request_delay: 0.1 s, in the 50 ms units of clock.
request_delay == 2

\* The names rate_limit_wait is called with while no API key is configured.
ApiNames == {"yahoo_finance", "yahoo_search"}

\* The number of tasks of the event loop that call the fetcher.
NumTasks == 3

Tasks == 1..NumTasks

\* The clock stops here.
MaxClock == 6

\* A task that has not been started.
IdleTask == [pc |-> "idle", api_name |-> "", wake_at |-> 0]

\* StockDataFetcher.__init__: last_request_time is the empty dict.
RateInit ==
    /\ clock = 0
    /\ last_request_time = [a \in ApiNames |-> Null]
    /\ rl_task = [t \in Tasks |-> IdleTask]
    /\ released = <<>>

RateIdle == RateInit

\* How long the synchronous yfinance calls of one request keep the event loop,
\* in units of 50 ms: an answer from yfinance's cache or an immediate error,
\* a short one, and one longer than request_delay.
RequestTicks == {0, 1, 3}

\* A task the event loop can resume now.
Ready(t) ==
    \/ rl_task[t].pc = "created"
    \/ rl_task[t].pc = "sleeping" /\ clock >= rl_task[t].wake_at

\* The event loop has nothing to resume and time.time() moves on.
TimePasses ==
    /\ \A t \in Tasks : ~Ready(t)
    /\ clock < MaxClock
    /\ clock' = clock + 1
    /\ UNCHANGED <<last_request_time, rl_task, released>>
    /\ UNCHANGED not_rate_vars

\* get_multiple_stocks, lines 379-382: one task per symbol is created; every
\* one of them reaches rate_limit_wait('yahoo_finance') through
\* get_stock_data and _get_yahoo_finance_data.
GetMultipleStocks ==
    /\ \E symbols \in SUBSET Tasks :
          /\ symbols # {}
          /\ \A t \in symbols : rl_task[t].pc = "idle"
          /\ rl_task' = [t \in Tasks |->
                            IF t \in symbols
                            THEN [pc |-> "created", api_name |-> "yahoo_finance",
                                  wake_at |-> 0]
                            ELSE rl_task[t]]
    /\ UNCHANGED <<clock, last_request_time, released>>
    /\ UNCHANGED not_rate_vars

\* search_stocks, called from a request handler of its own: it reaches
\* rate_limit_wait('yahoo_search').
SearchStocks(t) ==
    /\ rl_task[t].pc = "idle"
    /\ rl_task' = [rl_task EXCEPT ![t] = [pc |-> "created",
                                          api_name |-> "yahoo_search",
                                          wake_at |-> 0]]
    /\ UNCHANGED <<clock, last_request_time, released>>
    /\ UNCHANGED not_rate_vars

\* Line 50 and what follows it in the caller: the name is stamped with
\* time.time(), the request is let go, and the caller's yfinance calls run
\* to the end of the task without suspending, while the clock moves on.
StampAndRequest(t) ==
    LET api_name == rl_task[t].api_name
    IN /\ last_request_time' =
              [last_request_time EXCEPT ![api_name] = Num(clock)]
       /\ released' = Append(released, [api_name |-> api_name, at |-> clock])
       /\ rl_task' = [rl_task EXCEPT ![t].pc = "done"]
       /\ \E d \in RequestTicks :
             /\ clock + d <= MaxClock
             /\ clock' = clock + d

\* A task runs from its creation to its first suspension.  Lines 45-48: when
\* the name has a time and less than request_delay has passed since, the task
\* goes to sleep for the remainder; otherwise it stamps the name and makes
\* its request.
RateLimitWaitEnter(t) ==
    /\ rl_task[t].pc = "created"
    /\ LET last == last_request_time[rl_task[t].api_name]
       IN IF ~IsNull(last) /\ clock - Val(last) < request_delay
          THEN /\ rl_task' = [rl_task EXCEPT
                                 ![t].pc = "sleeping",
                                 ![t].wake_at =
                                     clock + (request_delay - (clock - Val(last)))]
               /\ UNCHANGED <<clock, last_request_time, released>>
          ELSE StampAndRequest(t)
    /\ UNCHANGED not_rate_vars

\* A task is resumed after asyncio.sleep: it stamps the name without looking
\* at last_request_time again, and makes its request.
RateLimitWaitWake(t) ==
    /\ rl_task[t].pc = "sleeping"
    /\ clock >= rl_task[t].wake_at
    /\ StampAndRequest(t)
    /\ UNCHANGED not_rate_vars

SearchNext == \E t \in Tasks : SearchStocks(t)

EnterNext == \E t \in Tasks : RateLimitWaitEnter(t)

WakeNext == \E t \in Tasks : RateLimitWaitWake(t)

RateNext ==
    TimePasses \/ GetMultipleStocks \/ SearchNext \/ EnterNext \/ WakeNext

----------------------------------------------------------------------------
(* The portfolio store, one iteration of the monitor loop, and the manual
   triggers *)

PfSymbols == {"AAA", "BBB", "DDD"}

\* The documents of the collection 'portfolio', in document-id order.
Positions == <<Doc("AAA", Num(1000)), Doc("BBB", Null), Doc("DDD", Num(700))>>

\* firebase_client.get_portfolio(): the documents of the collection.
get_portfolio(collection) ==
    SelectSeq(Positions, LAMBDA stock : stock.symbol \in collection)

\* main.py 441: analyze_stock_exit(stock['symbol']) with the defaults
\* avg_price = None and quantity = 0, tabulated.
ManualEvaluationOf ==
    [symbol \in PfSymbols, open \in BOOLEAN |->
        analyze_stock_exit(open, MarketData[symbol], Null, 0)]

\* One store_exit_signal call: the document id and the dict stored under it.
Stored(symbol, exit_signals) == [symbol |-> symbol, exit_signals |-> exit_signals]

\* main.py 342-351: what the for loop of background_portfolio_monitor hands
\* to store_exit_signal for a list of positions.
RECURSIVE MonitorLoopStores(_, _)
MonitorLoopStores(stocks, open) ==
    IF stocks = <<>> THEN <<>>
    ELSE LET exit_signals == EvaluationOf[stocks[1], open]
             rest == MonitorLoopStores(Tail(stocks), open)
         IN IF exit_signals # None /\ Get(exit_signals, "urgency", 0) >= 50
            THEN <<Stored(stocks[1].symbol, exit_signals)>> \o rest
            ELSE rest

\* main.py 440-443: what the for loop of background_portfolio_monitor_once
\* hands to store_exit_signal for a list of positions.
RECURSIVE ManualMonitorStores(_, _)
ManualMonitorStores(stocks, open) ==
    IF stocks = <<>> THEN <<>>
    ELSE LET exit_signals == ManualEvaluationOf[stocks[1].symbol, open]
             rest == ManualMonitorStores(Tail(stocks), open)
         IN IF exit_signals # None
            THEN <<Stored(stocks[1].symbol, exit_signals)>> \o rest
            ELSE rest

StoredSymbols(stored) == {stored[i].symbol : i \in 1..Len(stored)}

\* get_squeeze_opportunities(min_change_percent, min_score) on the market
\* MarketMovers, with every symbol a candidate and symbol 3 halted.
get_squeeze_opportunities(min_change, min_sc) ==
    HeadN(SortByUrgencyAndScore(
              _analyze_batch(Ascending(Symbols, 1), MarketMovers, min_change,
                             min_sc, HaltList({3}))),
          TopN)

\* main.py 376-379: the arguments the scanner loop passes.
LoopScanArgs == [min_change_percent |-> 100, min_score |-> 60]

\* squeeze_detector.py 45: the defaults the manual scan is left with.
DefaultScanArgs == [min_change_percent |-> 100, min_score |-> 60]

\* What either scan returns, tabulated by its arguments.
ScanReturns ==
    [a \in {LoopScanArgs, DefaultScanArgs} |->
        get_squeeze_opportunities(a.min_change_percent, a.min_score)]

PfTasks == {"loop", "manual"}

\* A task that has not run: where it is, its local portfolio, how many stocks
\* its for loop has done, the collection it read, and what it has stored.
FreshTask ==
    [pc |-> "ready", portfolio |-> <<>>, index |-> 0, seen |-> {},
     stored |-> <<>>]

PfIdle ==
    /\ pf_open = FALSE
    /\ pf_collection = {}
    /\ pf_exit_signals = {}
    /\ pf_removed = {}
    /\ pf_task = [t \in PfTasks |-> FreshTask]
    /\ pf_scans = [t \in PfTasks |-> Null]

\* A portfolio is held, an iteration of the loop is about to start and the
\* two manual triggers have been posted.
PfInit ==
    /\ pf_open \in BOOLEAN
    /\ pf_collection \in {PfSymbols, {"AAA", "BBB"}, {"DDD"}}
    /\ pf_exit_signals = {}
    /\ pf_removed = {}
    /\ pf_task = [t \in PfTasks |-> FreshTask]
    /\ pf_scans = [t \in PfTasks |-> Null]

\* main.py 326-359: one iteration of background_portfolio_monitor.  With the
\* market closed it goes to sleep at the gate.  With the market open it runs
\* to its end without suspending: the Firestore client and yfinance are
\* called synchronously.
MonitorLoopIteration ==
    /\ pf_task["loop"].pc = "ready"
    /\ LET stocks == IF pf_open THEN get_portfolio(pf_collection) ELSE <<>>
           stored == MonitorLoopStores(stocks, pf_open)
       IN /\ pf_task' = [pf_task EXCEPT !["loop"] =
                            [pc |-> "done", portfolio |-> stocks,
                             index |-> Len(stocks), seen |-> pf_collection,
                             stored |-> stored]]
          /\ pf_exit_signals' = pf_exit_signals \cup StoredSymbols(stored)
    /\ UNCHANGED <<pf_open, pf_collection, pf_removed, pf_scans>>
    /\ UNCHANGED not_pf_vars

\* main.py 436-447: background_portfolio_monitor_once up to its first
\* suspension.  With the market open analyze_stock_exit never suspends and
\* the run ends here; with the market closed the run suspends in
\* get_after_hours_price for its first stock.
ManualMonitorStart ==
    /\ pf_task["manual"].pc = "ready"
    /\ LET stocks == get_portfolio(pf_collection)
       IN IF pf_open \/ stocks = <<>>
          THEN LET stored == ManualMonitorStores(stocks, pf_open)
               IN /\ pf_task' = [pf_task EXCEPT !["manual"] =
                                    [pc |-> "done", portfolio |-> stocks,
                                     index |-> Len(stocks),
                                     seen |-> pf_collection, stored |-> stored]]
                  /\ pf_exit_signals' =
                         pf_exit_signals \cup StoredSymbols(stored)
          ELSE /\ pf_task' = [pf_task EXCEPT !["manual"] =
                                 [pc |-> "awaiting", portfolio |-> stocks,
                                  index |-> 0, seen |-> pf_collection,
                                  stored |-> <<>>]]
               /\ UNCHANGED pf_exit_signals
    /\ UNCHANGED <<pf_open, pf_collection, pf_removed, pf_scans>>
    /\ UNCHANGED not_pf_vars

\* The after-hours quote of the current stock has arrived: its result is
\* stored when it is not None, and the run suspends again for the next stock
\* or ends.
ManualMonitorResume ==
    /\ pf_task["manual"].pc = "awaiting"
    /\ LET task == pf_task["manual"]
           stock == task.portfolio[task.index + 1]
           stored == ManualMonitorStores(<<stock>>, pf_open)
       IN /\ pf_task' = [pf_task EXCEPT !["manual"] =
                            [task EXCEPT
                               !.pc = IF task.index + 1 = Len(task.portfolio)
                                      THEN "done" ELSE "awaiting",
                               !.index = task.index + 1,
                               !.stored = task.stored \o stored]]
          /\ pf_exit_signals' = pf_exit_signals \cup StoredSymbols(stored)
    /\ UNCHANGED <<pf_open, pf_collection, pf_removed, pf_scans>>
    /\ UNCHANGED not_pf_vars

\* main.py 197-232: remove_from_portfolio deletes the position and then the
\* exit_signals documents of the symbol; nothing in it suspends.
RemoveFromPortfolio(symbol) ==
    /\ symbol \in pf_collection
    /\ pf_collection' = pf_collection \ {symbol}
    /\ pf_exit_signals' = pf_exit_signals \ {symbol}
    /\ pf_removed' = pf_removed \cup {symbol}
    /\ UNCHANGED <<pf_open, pf_task, pf_scans>>
    /\ UNCHANGED not_pf_vars

\* main.py 171-194: add_to_portfolio puts the position back.
AddToPortfolio(symbol) ==
    /\ symbol \in pf_removed
    /\ pf_collection' = pf_collection \cup {symbol}
    /\ pf_removed' = pf_removed \ {symbol}
    /\ UNCHANGED <<pf_open, pf_exit_signals, pf_task, pf_scans>>
    /\ UNCHANGED not_pf_vars

\* main.py 376-383: the scanner loop scans and stores what the scan returned.
ScannerLoopIteration ==
    /\ pf_scans["loop"] = Null
    /\ pf_scans' = [pf_scans EXCEPT !["loop"] = Num(ScanReturns[LoopScanArgs])]
    /\ UNCHANGED <<pf_open, pf_collection, pf_exit_signals, pf_removed, pf_task>>
    /\ UNCHANGED not_pf_vars

\* main.py 426-433: background_squeeze_scanner_once scans with the defaults
\* and stores what the scan returned.
ManualScan ==
    /\ pf_scans["manual"] = Null
    /\ pf_scans' = [pf_scans EXCEPT !["manual"] = Num(ScanReturns[DefaultScanArgs])]
    /\ UNCHANGED <<pf_open, pf_collection, pf_exit_signals, pf_removed, pf_task>>
    /\ UNCHANGED not_pf_vars

RemoveNext == \E symbol \in PfSymbols : RemoveFromPortfolio(symbol)

AddNext == \E symbol \in PfSymbols : AddToPortfolio(symbol)

PfNext ==
    \/ MonitorLoopIteration
    \/ ManualMonitorStart
    \/ ManualMonitorResume
    \/ RemoveNext
    \/ AddNext
    \/ ScannerLoopIteration
    \/ ManualScan

----------------------------------------------------------------------------
(* The market-hours predicates *)

\* PortfolioMonitor.is_market_hours: current_time = hour + minute / 60 is
\* compared with 9.5 and 16; in minutes, 60 * hour + minute with 570 and 960.
\* The seconds of now_et are not read.
is_market_hours(t) ==
    IF t.weekday >= 5 THEN FALSE
    ELSE LET current_time == 60 * t.hour + t.minute
         IN 570 <= current_time /\ current_time <= 960

\* Mutant: the close is exclusive.
IsAfterHoursExclusiveClose(t) ==
    IF t.weekday >= 5 THEN TRUE
    ELSE LET current_time == 60 * t.hour + t.minute
         IN ~(570 <= current_time /\ current_time < 960)

\* AfterHoursDataProvider.is_after_hours
is_after_hours(t) ==
    IF t.weekday >= 5 THEN TRUE
    ELSE LET current_time == 60 * t.hour + t.minute
         IN ~(570 <= current_time /\ current_time <= 960)

\* The seconds of a minute the clock is read at.
Seconds == {0, 30, 59}

\* datetime.weekday(): Monday is 0 and Sunday is 6.
Instants ==
    [weekday : 0..6, hour : 0..23, minute : 0..59, second : Seconds]

MhIdle ==
    /\ now_et = [weekday |-> 0, hour |-> 0, minute |-> 0, second |-> 0]
    /\ market_hours_result = Null
    /\ after_hours_result = Null

MhInit ==
    /\ now_et \in Instants
    /\ market_hours_result = Null
    /\ after_hours_result = Null

IsMarketHours ==
    /\ market_hours_result = Null
    /\ market_hours_result' = <<is_market_hours(now_et)>>
    /\ UNCHANGED <<now_et, after_hours_result>>
    /\ UNCHANGED not_mh_vars

IsAfterHours ==
    /\ after_hours_result = Null
    /\ after_hours_result' = <<is_after_hours(now_et)>>
    /\ UNCHANGED <<now_et, market_hours_result>>
    /\ UNCHANGED not_mh_vars

MhNext == IsMarketHours \/ IsAfterHours

----------------------------------------------------------------------------
(* get_trading_halts called from several tasks of the event loop *)

\* The callers: get_squeeze_opportunities, the /api/trading-halts handler and
\* analyze_stock_squeeze_potential.
HaltCallers == {"scan", "api", "analyze"}

\* The last minute of the clock and the number of requests of the model.
MaxHcNow == 6
MaxFetches == 3

\* What the halt page lists when the k-th request is answered.
Page(k) == HaltList({k})

NotInCall == [pc |-> "idle", request |-> 0]

HcIdle ==
    /\ hc_now = 0
    /\ hc_cache = <<>>
    /\ hc_last_update = Null
    /\ hc_cache_of = Null
    /\ hc_task = [t \in HaltCallers |-> NotInCall]
    /\ hc_issued = <<>>

\* __init__: trading_halts_cache = [], last_halt_update = None.
HcInit == HcIdle

\* The cache test of get_trading_halts.
HcCacheIsRecent ==
    ~IsNull(hc_last_update) /\ hc_now - Val(hc_last_update) < HaltCacheMinutes

\* A call up to its first suspension: the cache is returned when recent;
\* otherwise the task issues session.get and is suspended in it.
GetTradingHaltsEnter(t) ==
    /\ hc_task[t].pc = "idle"
    /\ IF HcCacheIsRecent
       THEN UNCHANGED <<hc_task, hc_issued>>
       ELSE /\ Len(hc_issued) < MaxFetches
            /\ hc_issued' = Append(hc_issued, hc_now)
            /\ hc_task' = [hc_task EXCEPT
                   ![t] = [pc |-> "fetching", request |-> Len(hc_issued) + 1]]
    /\ UNCHANGED <<hc_now, hc_cache, hc_last_update, hc_cache_of>>
    /\ UNCHANGED not_hc_vars

\* The response arrives (or the request fails, which leaves halts = []): the
\* task replaces the cache and stamps last_halt_update, then returns.
GetTradingHaltsResume(t) ==
    /\ hc_task[t].pc = "fetching"
    /\ \E fails \in BOOLEAN :
          hc_cache' = IF fails THEN <<>> ELSE Page(hc_task[t].request)
    /\ hc_cache_of' = Num(hc_task[t].request)
    /\ hc_last_update' = Num(hc_now)
    /\ hc_task' = [hc_task EXCEPT ![t] = NotInCall]
    /\ UNCHANGED <<hc_now, hc_issued>>
    /\ UNCHANGED not_hc_vars

HcTimePasses ==
    /\ hc_now < MaxHcNow
    /\ hc_now' = hc_now + 1
    /\ UNCHANGED <<hc_cache, hc_last_update, hc_cache_of, hc_task, hc_issued>>
    /\ UNCHANGED not_hc_vars

HcEnterNext == \E t \in HaltCallers : GetTradingHaltsEnter(t)

HcResumeNext == \E t \in HaltCallers : GetTradingHaltsResume(t)

HcNext == HcEnterNext \/ HcResumeNext \/ HcTimePasses

----------------------------------------------------------------------------
(* Specifications *)

\* The scoring engine on its own.
InitScore == ScoreInit /\ ExitIdle /\ ScanIdle /\ LoopsIdle /\ RateIdle /\ PfIdle /\ MhIdle /\ HcIdle

SpecScore == InitScore /\ [][ScoreNext]_vars

\* The exit-signal analyzer on its own.
InitExit == ExitInit /\ ScoreIdle /\ ScanIdle /\ LoopsIdle /\ RateIdle /\ PfIdle /\ MhIdle /\ HcIdle

SpecExit == InitExit /\ [][ExitNext]_vars

\* The market-wide scanner on its own.
InitScan == ScanInit /\ ScoreIdle /\ ExitIdle /\ LoopsIdle /\ RateIdle /\ PfIdle /\ MhIdle /\ HcIdle

SpecScan == InitScan /\ [][ScanNext]_vars

\* The three scheduler loops and the clock.  Every task that can run is
\* run by the event loop sooner or later, and every sleep ends; the clock and
\* the failures are not forced.
InitLoops == LoopsInit /\ ScoreIdle /\ ExitIdle /\ ScanIdle /\ RateIdle /\ PfIdle /\ MhIdle /\ HcIdle

SpecLoops ==
    /\ InitLoops
    /\ [][LoopsNext]_vars
    /\ WF_vars(MonitorNext)
    /\ WF_vars(ScannerScan \/ ScannerStore \/ ScannerWake)
    /\ WF_vars(CleanupRun \/ CleanupWake)

\* The tasks that call the rate limiter, interleaved at their suspensions.
InitRate == RateInit /\ ScoreIdle /\ ExitIdle /\ ScanIdle /\ LoopsIdle /\ PfIdle /\ MhIdle /\ HcIdle

SpecRate == InitRate /\ [][RateNext]_vars

\* The portfolio store with one loop iteration, the manual triggers and the
\* portfolio endpoints, interleaved at their suspensions.
InitPf == PfInit /\ ScoreIdle /\ ExitIdle /\ ScanIdle /\ LoopsIdle /\ RateIdle /\ MhIdle /\ HcIdle

SpecPf == InitPf /\ [][PfNext]_vars

\* The two market-hours predicates at one reading of the clock.
InitMh == MhInit /\ ScoreIdle /\ ExitIdle /\ ScanIdle /\ LoopsIdle /\ RateIdle /\ PfIdle /\ HcIdle

SpecMh == InitMh /\ [][MhNext]_vars

\* get_trading_halts called from several tasks.
InitHc == HcInit /\ ScoreIdle /\ ExitIdle /\ ScanIdle /\ LoopsIdle /\ RateIdle /\ PfIdle /\ MhIdle

SpecHc == InitHc /\ [][HcNext]_vars

----------------------------------------------------------------------------
(* Claims about the scoring engine, checked under SpecScore *)

Scored == score_pc \in {"scored", "rescored", "classified"} /\ data # NoSnapshot

\* C1: for every input snapshot, however extreme (and also when an optional
\* field is None or missing), the composite score returned by
\* _calculate_enhanced_squeeze_score is an integer in [0,100].
C1_ScoreInRange == Scored => squeeze_score \in 0..100

\* C1 witness: the most extreme snapshot (10,000% move, 1,000x volume, halt,
\* 1000 mentions, 5M float, short ratio 10) has been scored, and scored 100.
C1_Witness ==
    /\ Scored
    /\ data = [change_percent |-> 10000, volume_spike |-> 1000,
               trading_halt |-> TRUE, social_mentions |-> Num(1000),
               float_shares |-> Num(5000000), short_ratio |-> Num(10)]
    /\ squeeze_score = 100

\* The tier the claim C2 states, as a function of the classifier's arguments.
C2_Tier(a) ==
    IF a.score >= 90 \/ (a.has_halt /\ a.score >= 70) THEN "CRITICAL"
    ELSE IF a.score >= 70 \/ a.volume_spike >= 10 \/ Abs(a.change_percent) >= 200
         THEN "HIGH"
    ELSE IF a.score >= 60 THEN "MEDIUM"
    ELSE "LOW"

\* C2: the urgency tier is CRITICAL exactly when score >= 90 or (halt and
\* score >= 70); otherwise HIGH exactly when score >= 70 or volume_spike >= 10
\* or |change_percent| >= 200; otherwise MEDIUM exactly when score >= 60;
\* otherwise LOW.
C2_UrgencyFirstMatch == score_pc = "classified" => urgency = C2_Tier(urgency_args)

\* C2 witness: a halted symbol with score 70 has been classified CRITICAL.
C2_Witness ==
    /\ score_pc = "classified"
    /\ urgency_args.has_halt
    /\ urgency_args.score = 70
    /\ urgency = "CRITICAL"

\* The snapshot of the scenario of C3.
C3_Scenario ==
    [change_percent |-> 250, volume_spike |-> 12, trading_halt |-> TRUE,
     social_mentions |-> Num(0), float_shares |-> Num(5000000),
     short_ratio |-> Num(0)]

\* C3 as stated: the scenario snapshot scores 68 and is classified MEDIUM.
C3_ScenarioMedium ==
    (data = C3_Scenario /\ score_pc = "classified")
        => (squeeze_score = 68 /\ urgency = "MEDIUM")

\* C3 as amended: the scenario snapshot scores 68 and is classified HIGH
\* (volume_spike 12 >= 10, and |change_percent| 250 >= 200).
C3_ScenarioHigh ==
    /\ (data = C3_Scenario /\ score_pc \in {"scored", "classified"})
            => squeeze_score = 68
    /\ (data = C3_Scenario /\ score_pc = "classified") => urgency = "HIGH"

\* C3 witness: the scenario snapshot has been scored and classified.
C3_Witness == data = C3_Scenario /\ score_pc = "classified"

\* The value of an optional numeric field of the snapshot being scored: 0 when
\* the key is absent or its value is None.
FieldOrZero(key) ==
    IF key \in DOMAIN data /\ ~IsNull(data[key]) THEN Val(data[key]) ELSE 0

\* The six sub-scores as C11 tabulates them.
C11_P ==
    LET c == Abs(data.change_percent)
    IN IF c >= 500 THEN 25 ELSE IF c >= 300 THEN 22 ELSE IF c >= 200 THEN 18
       ELSE IF c >= 100 THEN 15 ELSE IF c >= 50 THEN 10 ELSE 0

C11_V ==
    LET v == data.volume_spike
    IN IF v >= 20 THEN 25 ELSE IF v >= 10 THEN 20 ELSE IF v >= 5 THEN 15
       ELSE IF v >= 3 THEN 10 ELSE IF v >= 2 THEN 5 ELSE 0

C11_H == IF data.trading_halt THEN 20 ELSE 0

C11_S ==
    LET m == FieldOrZero("social_mentions")
    IN IF m >= 1000 THEN 15 ELSE IF m >= 500 THEN 12 ELSE IF m >= 100 THEN 8
       ELSE IF m >= 50 THEN 5 ELSE 0

C11_F ==
    LET f == FieldOrZero("float_shares")
    IN IF 0 < f /\ f < 10000000 THEN 10
       ELSE IF 0 < f /\ f < 50000000 THEN 7
       ELSE IF 0 < f /\ f < 100000000 THEN 4
       ELSE 0

C11_R ==
    LET r == FieldOrZero("short_ratio")
    IN IF r >= 10 THEN 5 ELSE IF r >= 5 THEN 3 ELSE IF r >= 2 THEN 1 ELSE 0

\* The snapshot being scored carries None in an optional field: the
\* comparison of None with a number fails inside the scoring function.
ScoringFails ==
    \E key \in {"social_mentions", "float_shares", "short_ratio"} :
        key \in DOMAIN data /\ IsNull(data[key])

\* C11: for every snapshot on which the scoring does not fail, the composite
\* score equals min(100, P + V + H + S + F + R) with the six tiered
\* sub-scores of the table, and scoring the same snapshot a second time gives
\* the same score.
C11_ScoreFormulaAndIdempotent ==
    /\ [](Scored /\ ~ScoringFails
            => squeeze_score = Min(100, C11_P + C11_V + C11_H + C11_S + C11_F + C11_R))
    /\ [][score_pc = "scored" /\ score_pc' = "rescored"
            => squeeze_score' = squeeze_score]_vars

\* C11 witness: a snapshot on the boundary of every table (500% move, 20x
\* volume, halted, 1000 mentions, exactly 10M float, short ratio 10) has been
\* scored twice and scored 25 + 25 + 20 + 15 + 7 + 5 = 97.
C11_Witness ==
    /\ score_pc = "rescored"
    /\ data.change_percent = 500
    /\ data.volume_spike = 20
    /\ data.trading_halt
    /\ "social_mentions" \in DOMAIN data /\ data.social_mentions = Num(1000)
    /\ "float_shares" \in DOMAIN data /\ data.float_shares = Num(10000000)
    /\ "short_ratio" \in DOMAIN data /\ data.short_ratio = Num(10)
    /\ squeeze_score = 97

\* An optional field of the snapshot being scored is absent or None.
OptionalFieldMissing ==
    \E key \in {"social_mentions", "float_shares", "short_ratio"} :
        key \notin DOMAIN data \/ IsNull(data[key])

\* C12: scoring is total, and an optional field (float_shares, short_ratio,
\* social_mentions) that is absent or None contributes zero without touching
\* the other sub-scores: the composite score is the sum of the remaining
\* sub-scores, not a failure and not 0.
C12_MissingFieldContributesZero ==
    (Scored /\ OptionalFieldMissing)
        => squeeze_score = Min(100, C11_P + C11_V + C11_H + C11_S + C11_F + C11_R)

\* The part of C12 the code keeps: an absent key contributes zero.
C12_AbsentFieldContributesZero ==
    (Scored /\ OptionalFieldMissing /\ ~ScoringFails)
        => squeeze_score = Min(100, C11_P + C11_V + C11_H + C11_S + C11_F + C11_R)

----------------------------------------------------------------------------
(* Claims about the exit-signal analyzer, checked under SpecExit *)

ExitDone == exit_pc = "done"

\* The call returned a dict.
Returned == ExitDone /\ exit_result # None

\* A regular-session evaluation that got past the insufficient-data return.
SufficientRegular == ExitDone /\ market_hours /\ ~fetch_raises /\ Len(hist) >= 10

EventsOf(r) == IF "exit_signals" \in DOMAIN r THEN r.exit_signals ELSE <<>>

EventsOfType(r, t) == SelectSeq(EventsOf(r), LAMBDA e : e.type = t)

HasEvent(r, t) == EventsOfType(r, t) # <<>>

\* The urgencies the listed events carry.
EventUrgencies(r) ==
    {EventsOf(r)[i].urgency :
        i \in {j \in 1..Len(EventsOf(r)) : "urgency" \in DOMAIN EventsOf(r)[j]}}

SetMax(S) == CHOOSE m \in S : \A x \in S : x <= m

\* The quantities the claims speak of, from the inputs of the call.
InCurrentPrice == hist[Len(hist)].Close

InRecentHigh == SeqMax(TailN(Column(hist, "High"), 60))

InDrop ==
    IF InRecentHigh > 0
    THEN Ratio((InRecentHigh - InCurrentPrice) * 100, InRecentHigh)
    ELSE Ratio(0, 1)

InGain == Ratio((InCurrentPrice - Val(avg_price)) * 100, Val(avg_price))

\* C4: for every evaluation by analyze_stock_exit that returns a result listing
\* exit events, every listed event carries an urgency and the result's
\* aggregate urgency is the maximum of them.
C4_AggregateIsMaxOfEvents ==
    (Returned /\ EventsOf(exit_result) # <<>>)
        => /\ \A i \in 1..Len(EventsOf(exit_result)) :
                  "urgency" \in DOMAIN EventsOf(exit_result)[i]
           /\ exit_result.urgency = SetMax(EventUrgencies(exit_result))

\* C4, regular session only: the aggregate urgency is the maximum of the
\* urgencies of the listed events, each of which carries one.
C4_RegularAggregateIsMax ==
    (Returned /\ market_hours)
        => /\ EventsOf(exit_result) # <<>>
           /\ \A i \in 1..Len(EventsOf(exit_result)) :
                  "urgency" \in DOMAIN EventsOf(exit_result)[i]
           /\ exit_result.urgency = SetMax(EventUrgencies(exit_result))

\* The urgency of the first profit-protection tier that holds, 0 when none does.
C5_Tier(gain, drop) ==
    IF RatioGE(gain, 100) /\ RatioGE(drop, 5) THEN 85
    ELSE IF RatioGE(gain, 50) /\ RatioGE(drop, 7) THEN 75
    ELSE IF RatioGE(gain, 25) /\ RatioGE(drop, 10) THEN 65
    ELSE 0

\* C5: an evaluation lists at most one profit_protection event; it lists one
\* exactly when the position has an average cost and some tier holds, and its
\* urgency is that of the first tier, in the order (>=100%, >=5%) -> 85,
\* (>=50%, >=7%) -> 75, (>=25%, >=10%) -> 65, whose two conditions both hold.
C5_ProfitProtectionFirstTier ==
    /\ ExitDone => Len(EventsOfType(exit_result, "profit_protection")) <= 1
    /\ SufficientRegular =>
           LET evs == EventsOfType(exit_result, "profit_protection")
               tier == IF Truthy(avg_price) THEN C5_Tier(InGain, InDrop) ELSE 0
           IN /\ (evs # <<>>) <=> (tier # 0)
              /\ evs # <<>> => evs[1].urgency = tier

\* C5 witness: a position up 120% that is 6% below its high got the tier-1
\* event (urgency 85).
C5_Witness ==
    /\ SufficientRegular
    /\ Truthy(avg_price)
    /\ RatioGE(InGain, 120) /\ RatioLT(InGain, 121)
    /\ RatioGE(InDrop, 6) /\ RatioLT(InDrop, 7)
    /\ EventsOfType(exit_result, "profit_protection") # <<>>
    /\ EventsOfType(exit_result, "profit_protection")[1].urgency = 85

\* The last close is more than 5% below the close two candles before it.
InTrendConfirmed ==
    LET c3 == hist[Len(hist) - 2].Close
    IN c3 > 0 /\ (InCurrentPrice - c3) * 100 < -5 * c3

\* The scenario avg_price = 10, current_price = 9.0, recent_high = 11.
InScenario ==
    /\ avg_price = Num(1000)
    /\ InCurrentPrice = 900
    /\ InRecentHigh = 1100

\* C6 as stated: in a regular-session evaluation with sufficient data, a
\* quick_drop event with urgency 95 is emitted whenever the current price is at
\* least 8% below the rolling high of the last 60 samples.
C6_QuickDropWheneverEightPercent ==
    (SufficientRegular /\ RatioGE(InDrop, 8))
        => /\ HasEvent(exit_result, "quick_drop")
           /\ exit_result.urgency = 95

\* C6 as amended: a quick_drop event is emitted exactly when the price is at
\* least 8% below the rolling high and the last close is more than 5% below the
\* close two samples before it; it has urgency 95 and makes the aggregate 95.
\* In the scenario the aggregate is 95 with that confirmation and 90 (the
\* trailing stop) without it.
C6_QuickDropNeedsConfirmation ==
    SufficientRegular =>
        /\ HasEvent(exit_result, "quick_drop")
               <=> (RatioGE(InDrop, 8) /\ InTrendConfirmed)
        /\ HasEvent(exit_result, "quick_drop")
               => /\ EventsOfType(exit_result, "quick_drop")[1].urgency = 95
                  /\ Len(EventsOfType(exit_result, "quick_drop")) = 1
                  /\ exit_result.urgency = 95
        /\ InScenario
               => exit_result.urgency = IF InTrendConfirmed THEN 95 ELSE 90

\* C6 witness: the scenario with the drop confirmed: quick_drop, aggregate 95.
C6_Witness ==
    /\ SufficientRegular
    /\ InScenario
    /\ InTrendConfirmed
    /\ HasEvent(exit_result, "quick_drop")
    /\ exit_result.urgency = 95

\* C7: a trailing_stop event is emitted exactly when recent_high > 0 and
\* (recent_high - current_price) / recent_high >= 0.15 (and never outside a
\* regular-session evaluation); its urgency is 90, its stop level is
\* recent_high * 0.85, and the aggregate urgency of the result is >= 90.
C7_TrailingStop ==
    /\ SufficientRegular =>
           /\ HasEvent(exit_result, "trailing_stop")
                  <=> /\ InRecentHigh > 0
                      /\ (InRecentHigh - InCurrentPrice) * 100 >= 15 * InRecentHigh
           /\ HasEvent(exit_result, "trailing_stop")
                  => LET ev == EventsOfType(exit_result, "trailing_stop")
                     IN /\ Len(ev) = 1
                        /\ ev[1].urgency = 90
                        /\ ev[1].stop_level = InRecentHigh * 85
                        /\ exit_result.urgency >= 90
    /\ (ExitDone /\ ~SufficientRegular) => ~HasEvent(exit_result, "trailing_stop")

\* C7 witness: recent_high 11.00 and price 9.00: trailing_stop with stop 9.35.
C7_Witness ==
    /\ SufficientRegular
    /\ InRecentHigh = 1100
    /\ InCurrentPrice = 900
    /\ HasEvent(exit_result, "trailing_stop")
    /\ EventsOfType(exit_result, "trailing_stop")[1].stop_level = 93500

\* C8 as stated: with fewer than 10 samples analyze_stock_exit returns None,
\* whether the market-hours predicate is true or false.
C8_FewSamplesAlwaysNone == (ExitDone /\ Len(hist) < 10) => exit_result = None

\* C8 as amended: with the market-hours predicate true and fewer than 10
\* samples the call returns None; with the predicate false the samples are not
\* consulted, and without an after-hours quote the call returns a result
\* object of urgency 0 (status AFTER_HOURS_NO_DATA).
C8_FewSamplesNoneInMarketHours ==
    /\ (ExitDone /\ market_hours /\ Len(hist) < 10) => exit_result = None
    /\ (ExitDone /\ ~market_hours /\ ah_quote = None)
           => /\ exit_result # None
              /\ exit_result.status = "AFTER_HOURS_NO_DATA"
              /\ exit_result.urgency = 0

\* C8 witness: market hours, nine candles fetched, the call returned None.
C8_Witness ==
    /\ ExitDone
    /\ market_hours
    /\ ~fetch_raises
    /\ Len(hist) = 9
    /\ exit_result = None

\* The sum of the closes k samples from the end, k in from..to (the last
\* sample is 1 from the end).
ClosesFromEnd(from, to) ==
    SeqSum([k \in 1..(to - from + 1) |-> hist[Len(hist) + 1 - (from + k - 1)].Close])

\* The mean of the most recent 5 closes is at least 5% below the mean of the
\* 10 closes before them: sum5 / 5 <= 0.95 * sum10 / 10.
InMomentumLost ==
    /\ ClosesFromEnd(6, 15) > 0
    /\ 200 * ClosesFromEnd(1, 5) <= 95 * ClosesFromEnd(6, 15)

\* C22: in a regular-session evaluation with at least 15 samples, a
\* momentum_reversal event with urgency 70 is emitted exactly when the mean of
\* the most recent 5 closes is at least 5% below the mean of the 10 closes
\* immediately before them (samples 6 to 15 from the end), for every series
\* length.
C22_MomentumAgainstPrecedingTen ==
    (SufficientRegular /\ Len(hist) >= 15) =>
        /\ HasEvent(exit_result, "momentum_reversal") <=> InMomentumLost
        /\ HasEvent(exit_result, "momentum_reversal") =>
               EventsOfType(exit_result, "momentum_reversal")[1].urgency = 70

\* With exactly 15 samples the first ten of the window are the ten before the
\* last five, and the statement of C22 holds.
C22_FifteenSamples ==
    (SufficientRegular /\ Len(hist) = 15) =>
        /\ HasEvent(exit_result, "momentum_reversal") <=> InMomentumLost
        /\ HasEvent(exit_result, "momentum_reversal") =>
               EventsOfType(exit_result, "momentum_reversal")[1].urgency = 70

\* Twenty samples, flat at 10.00 for the last fifteen after five at 12.00:
\* the event is emitted although the last five equal the ten before them.
C22_OldRallyWitness ==
    /\ SufficientRegular
    /\ hist = StepHist(20, 1200, 1000)
    /\ HasEvent(exit_result, "momentum_reversal")
    /\ ~InMomentumLost

\* The sum of the volumes of the last 10 samples.
InVolumeSumTen == SeqSum(TailN(Column(hist, "Volume"), 10))

\* The price is below a 5-period moving average that is declining.
InBelowDecliningAverage ==
    /\ 5 * InCurrentPrice < ClosesFromEnd(1, 5)
    /\ ClosesFromEnd(1, 5) < ClosesFromEnd(2, 6)

\* The 5-period average has crossed below the 10-period average.
InAverageCrossedBelow ==
    /\ 2 * ClosesFromEnd(1, 5) < ClosesFromEnd(1, 10)
    /\ 2 * ClosesFromEnd(2, 6) >= ClosesFromEnd(2, 11)

\* The volume is more than twice its 10-period average while the price fell
\* 2% or more in one period.
InVolumeSurgeOnDrop ==
    /\ 10 * hist[Len(hist)].Volume > 2 * InVolumeSumTen
    /\ (hist[Len(hist) - 1].Close - InCurrentPrice) * 100
           >= 2 * hist[Len(hist) - 1].Close

InBreakdown ==
    InBelowDecliningAverage \/ InAverageCrossedBelow \/ InVolumeSurgeOnDrop

\* C23: in a regular-session evaluation with sufficient data a
\* technical_breakdown event with urgency 75 is emitted whenever the price is
\* below a declining 5-period average, or the 5-period average crosses below
\* the 10-period average, or the volume exceeds twice its 10-period average
\* together with a single-period drop of 2% or more; one joint event reports
\* them.
C23_TechnicalBreakdownEmitted ==
    (SufficientRegular /\ Len(hist) >= 11 /\ InBreakdown) =>
        /\ Len(EventsOfType(exit_result, "technical_breakdown")) = 1
        /\ EventsOfType(exit_result, "technical_breakdown")[1].urgency = 75

\* No evaluation lists a technical_breakdown event.
C23_NeverEmitted == ExitDone => ~HasEvent(exit_result, "technical_breakdown")

\* The first two conditions arise in evaluations that returned.
C23_BelowAverageReached ==
    SufficientRegular /\ Len(hist) >= 11 /\ InBelowDecliningAverage

C23_CrossReached ==
    SufficientRegular /\ Len(hist) >= 11 /\ InAverageCrossedBelow

AfterHoursTypes == {"after_hours_drop", "after_hours_surge", "after_hours_gain"}

RegularTypes ==
    {"quick_drop", "volume_exhaustion", "momentum_reversal", "profit_protection",
     "trailing_stop"}

EventTypes(r) == {EventsOf(r)[i].type : i \in 1..Len(EventsOf(r))}

\* The result came from the after-hours analysis.
IsAfterHoursResult(r) == Get(r, "after_hours", FALSE)

\* The aggregate urgency C13 states for a move c since the close; 0: no event.
C13_Urgency(c) ==
    IF c <= -15 THEN 80 ELSE IF c >= 100 THEN 30 ELSE IF c >= 50 THEN 20 ELSE 0

\* C13: the after-hours rules are applied only when is_market_hours() is
\* false; they then produce at most one event, with aggregate urgency 80 for
\* a move <= -15% since the close, 30 for >= +100%, 20 for >= +50%, and no
\* event otherwise; a regular-session result holds no after-hours event and
\* an after-hours result no regular-session event.
C13_AfterHoursRules ==
    ExitDone =>
        /\ market_hours =>
               /\ ~IsAfterHoursResult(exit_result)
               /\ EventTypes(exit_result) \cap AfterHoursTypes = {}
        /\ ~market_hours =>
               /\ EventTypes(exit_result) \cap RegularTypes = {}
               /\ Len(EventsOf(exit_result)) <= 1
               /\ IF ah_quote # None /\ C13_Urgency(ah_quote.change_percent) > 0
                  THEN /\ Len(EventsOf(exit_result)) = 1
                       /\ exit_result.urgency = C13_Urgency(ah_quote.change_percent)
                  ELSE EventsOf(exit_result) = <<>>

\* C13 witness: outside market hours a move of -20% since the close gave one
\* after_hours_drop event and aggregate urgency 80.
C13_Witness ==
    /\ ExitDone
    /\ ~market_hours
    /\ ah_quote # None
    /\ ah_quote.change_percent = -20
    /\ EventTypes(exit_result) = {"after_hours_drop"}
    /\ exit_result.urgency = 80

\* The recommendation level and action C14 states for an aggregate urgency.
C14_Level(u) ==
    IF u >= 90 THEN <<"CRITICAL", "SELL IMMEDIATELY">>
    ELSE IF u >= 80 THEN <<"HIGH", "SELL NOW">>
    ELSE IF u >= 70 THEN <<"MEDIUM", "PREPARE TO SELL">>
    ELSE IF u >= 60 THEN <<"LOW", "WATCH CLOSELY">>
    ELSE <<"NONE", "HOLD">>

\* The time-to-act bucket of an aggregate urgency.
C14_TimeToAct(u) ==
    IF u >= 90 THEN "IMMEDIATELY - Within 1-2 minutes"
    ELSE IF u >= 80 THEN "VERY SOON - Within 5-10 minutes"
    ELSE IF u >= 70 THEN "SOON - Within 15-30 minutes"
    ELSE IF u >= 60 THEN "MONITOR - Next 1-2 hours"
    ELSE "NO RUSH - Continue monitoring"

\* The result r carries the recommendation and time-to-act of its urgency band.
BandedRecommendation(r) ==
    /\ "recommendation" \in DOMAIN r
    /\ Get(r.recommendation, "urgency_level", "absent") = C14_Level(r.urgency)[1]
    /\ Get(r.recommendation, "action", "absent") = C14_Level(r.urgency)[2]
    /\ Get(r, "time_to_act", "absent") = C14_TimeToAct(r.urgency)

\* C14 as stated: every result returned, regular-session or after-hours,
\* carries the recommendation level of its aggregate urgency band (>= 90
\* CRITICAL, >= 80 HIGH, >= 70 MEDIUM, >= 60 LOW, else HOLD/NONE) and the
\* time-to-act string of the same band.
C14_RecommendationByBand == Returned => BandedRecommendation(exit_result)

\* C14 as amended: every result of a regular-session evaluation carries the
\* recommendation level and the time-to-act string of its aggregate urgency
\* band; an after-hours result carries neither a level nor a time-to-act, its
\* recommendation is MONITOR below urgency 50 and PREPARE from 50 on (when it
\* has a recommendation at all).
C14_RegularRecommendationByBand ==
    /\ (Returned /\ market_hours) => BandedRecommendation(exit_result)
    /\ (Returned /\ ~market_hours) =>
           /\ "time_to_act" \notin DOMAIN exit_result
           /\ "recommendation" \in DOMAIN exit_result =>
                  /\ "urgency_level" \notin DOMAIN exit_result.recommendation
                  /\ exit_result.recommendation.action =
                         (IF exit_result.urgency < 50 THEN "MONITOR" ELSE "PREPARE")

\* C14 witness: a regular-session result of aggregate urgency 80 recommends
\* SELL NOW at level HIGH, within 5-10 minutes.
C14_Witness ==
    /\ Returned
    /\ market_hours
    /\ exit_result.urgency = 80
    /\ exit_result.recommendation.urgency_level = "HIGH"
    /\ exit_result.time_to_act = "VERY SOON - Within 5-10 minutes"

\* The event types the specification lists.
ListedEventTypes ==
    {"quick_drop", "volume_exhaustion", "momentum_reversal", "profit_protection",
     "trailing_stop", "technical_breakdown", "after_hours_drop",
     "after_hours_surge"}

EventIsListedWithUrgency(e) ==
    /\ e.type \in ListedEventTypes
    /\ "urgency" \in DOMAIN e
    /\ e.urgency \in 0..100

\* C25: every exit event of every result has one of the listed types and
\* carries its own numeric urgency in 0..100.
C25_EventsListedWithUrgency ==
    (ExitDone /\ exit_result # None) =>
        \A i \in 1..Len(EventsOf(exit_result)) :
            EventIsListedWithUrgency(EventsOf(exit_result)[i])

\* The events of a regular-session result are listed and carry an urgency.
C25_RegularEventsListedWithUrgency ==
    (SufficientRegular /\ exit_result # None) =>
        \A i \in 1..Len(EventsOf(exit_result)) :
            EventIsListedWithUrgency(EventsOf(exit_result)[i])

\* An after-hours result lists an event of type after_hours_gain.
C25_AfterHoursGainReached ==
    /\ ExitDone
    /\ exit_result # None
    /\ HasEvent(exit_result, "after_hours_gain")

----------------------------------------------------------------------------
(* Claims about the market-wide scanner, checked under SpecScan *)

ScanDone == scan_pc = "done"

\* The candidates of the scan: every symbol one of the three sources named.
Candidates ==
    (IF yahoo_fails THEN {} ELSE yahoo_movers)
        \cup (IF finviz_fails THEN {} ELSE finviz_movers)
        \cup {trading_halts[i].symbol : i \in 1..Len(trading_halts)}

InHalted(s) == \E i \in 1..Len(trading_halts) : trading_halts[i].symbol = s

\* |change_percent| >= m, by cross-multiplication.
InAbsChangeAtLeast(s, m) ==
    IF market[s].prev_close > 0
    THEN Abs(market[s].price - market[s].prev_close) * 100 >= m * market[s].prev_close
    ELSE 0 >= m

\* volume_spike >= k, by cross-multiplication.
InVolumeSpikeAtLeast(s, k) ==
    IF market[s].volume_sum > 0
    THEN market[s].current_volume * market[s].n20 >= k * market[s].volume_sum
    ELSE 1 >= k

\* The composite score of the candidate's snapshot.
InScore(s) ==
    _calculate_enhanced_squeeze_score(
        [change_percent |-> ChangePercent(market[s]),
         volume_spike |-> VolumeSpike(market[s]),
         float_shares |-> market[s].float_shares,
         short_ratio |-> market[s].short_ratio,
         trading_halt |-> InHalted(s),
         social_mentions |->
             Num(IF s \in MemeSymbols THEN market[s].mentions_draw ELSE 0)])

\* The urgency tier of the candidate's snapshot.
InUrgency(s) ==
    _determine_urgency(InScore(s), InHalted(s), VolumeSpike(market[s]),
                       Abs(ChangePercent(market[s])))

\* The candidate passes every filter of the scan.
Qualifies(s) ==
    /\ market[s].avail /\ ~market[s].raises
    /\ market[s].price <= 10000
    /\ InAbsChangeAtLeast(s, min_change_percent)
    /\ InVolumeSpikeAtLeast(s, 2)
    /\ InScore(s) >= min_score

Qualifying == {s \in Candidates : Qualifies(s)}

ResultSymbols == {scan_result[i].symbol : i \in 1..Len(scan_result)}

\* C9: when at most 20 candidates pass every filter, a scan returns exactly
\* those candidates, each once: a candidate is in the result if and only if
\* its snapshot is available, its price is at most 100.00, |change_percent|
\* >= min_change_percent, volume_spike >= 2.0 and its composite score is
\* >= min_score.
C9_ScanReturnsExactlyQualifying ==
    (ScanDone /\ Cardinality(Qualifying) <= 20)
        => /\ ResultSymbols = Qualifying
           /\ Len(scan_result) = Cardinality(Qualifying)

\* The scan with min_change_percent = 100 and min_score = 60 over three
\* candidates of which one (change_percent 150, score 70) qualifies has
\* returned exactly that one.
C9_Witness ==
    /\ ScanDone
    /\ min_change_percent = 100
    /\ min_score = 60
    /\ Cardinality(Candidates) = 3
    /\ Cardinality(Qualifying) = 1
    /\ Len(scan_result) = 1
    /\ scan_result[1].symbol \in Qualifying
    /\ scan_result[1].change_percent = 150
    /\ scan_result[1].squeeze_score = 70

\* CRITICAL > HIGH > MEDIUM > LOW
TierRank(u) ==
    IF u = "CRITICAL" THEN 4 ELSE IF u = "HIGH" THEN 3
    ELSE IF u = "MEDIUM" THEN 2 ELSE 1

\* (tier u1, score s1) ranks strictly above (tier u2, score s2).
RanksAbove(u1, s1, u2, s2) ==
    \/ TierRank(u1) > TierRank(u2)
    \/ TierRank(u1) = TierRank(u2) /\ s1 > s2

\* C10: the list a scan returns has at most 20 entries and is ordered by
\* (urgency priority, composite score) non-increasing, CRITICAL > HIGH >
\* MEDIUM > LOW; when more than 20 candidates survive the filters it has 20
\* entries and no survivor left out ranks strictly above a returned one.
C10_RankedTopTwenty ==
    ScanDone =>
        /\ Len(scan_result) <= 20
        /\ \A i, j \in 1..Len(scan_result) :
               i < j => ~RanksAbove(scan_result[j].urgency,
                                    scan_result[j].squeeze_score,
                                    scan_result[i].urgency,
                                    scan_result[i].squeeze_score)
        /\ Cardinality(Qualifying) > 20 =>
               /\ Len(scan_result) = 20
               /\ ResultSymbols \subseteq Qualifying
               /\ \A s \in Qualifying \ ResultSymbols :
                      \A i \in 1..Len(scan_result) :
                          ~RanksAbove(InUrgency(s), InScore(s),
                                      scan_result[i].urgency,
                                      scan_result[i].squeeze_score)

\* More than 20 candidates survived; 20 were returned, of more than one tier
\* and more than one score, and a survivor was left out.
C10_Witness ==
    /\ ScanDone
    /\ Cardinality(Qualifying) > 20
    /\ Len(scan_result) = 20
    /\ Qualifying \ ResultSymbols # {}
    /\ scan_result[1].urgency # scan_result[20].urgency
    /\ \E i \in 1..19 :
           /\ scan_result[i].urgency = scan_result[i + 1].urgency
           /\ scan_result[i].squeeze_score > scan_result[i + 1].squeeze_score

\* A discovery source or the analysis of a candidate has failed in this scan.
ScanHadFailure ==
    \/ yahoo_fails
    \/ finviz_fails
    \/ (halt_fetch_fails /\ halt_fetched)
    \/ \E i \in 1..Len(candidates_list) : market[candidates_list[i]].raises

\* The symbols the sources that did not fail have named.
RemainingCandidates ==
    (IF yahoo_fails THEN {} ELSE yahoo_movers)
        \cup (IF finviz_fails THEN {} ELSE finviz_movers)
        \cup {trading_halts[i].symbol : i \in 1..Len(trading_halts)}

\* Those of them whose analysis does not fail and that pass every filter.
QualifyingRemaining ==
    {s \in RemainingCandidates : ~market[s].raises /\ Qualifies(s)}

\* C18: the failure of a discovery source (top movers, screener, halt list)
\* or of the analysis of a candidate does not abort the scan: the failing
\* source contributes no candidate, the failing symbol is skipped, and the
\* scan returns every qualifying opportunity of the remaining sources and
\* symbols (the 20 first of them when there are more).
C18_ScanSurvivesFailures ==
    (ScanDone /\ ScanHadFailure) =>
        /\ \A i \in 1..Len(scan_result) : ~market[scan_result[i].symbol].raises
        /\ ResultSymbols \subseteq QualifyingRemaining
        /\ Cardinality(QualifyingRemaining) <= 20 =>
               ResultSymbols = QualifyingRemaining
        /\ Cardinality(QualifyingRemaining) > 20 => Len(scan_result) = 20

\* C18 witness: the top-movers source failed and the analysis of a candidate
\* raised, and the scan returned the qualifying candidates that the screener
\* and the halt list named.
C18_Witness ==
    /\ ScanDone
    /\ yahoo_fails
    /\ \E i \in 1..Len(candidates_list) :
           /\ market[candidates_list[i]].raises
           /\ \E j \in (i + 1)..Len(candidates_list) :
                  candidates_list[j] \in ResultSymbols
    /\ QualifyingRemaining # {}
    /\ ResultSymbols = QualifyingRemaining

\* get_trading_halts has just returned: the step that leaves "start".
HaltsReturned == scan_pc = "start" /\ scan_pc' # "start"

\* The cache was last refreshed less than five minutes ago.
CacheIsRecent ==
    /\ last_halt_update # Null
    /\ now - last_halt_update[1] < 5

\* A cache hit: the cached list is returned, NASDAQ is not asked, and neither
\* the cache nor its timestamp changes.
CacheHit ==
    /\ trading_halts' = trading_halts_cache
    /\ ~halt_fetched'
    /\ trading_halts_cache' = trading_halts_cache
    /\ last_halt_update' = last_halt_update

\* A refresh: NASDAQ is asked, and what the request gave (nothing when it
\* failed) is returned and becomes the cache, stamped with the present time.
CacheRefresh ==
    /\ halt_fetched'
    /\ trading_halts' = (IF halt_fetch_fails THEN <<>> ELSE halt_source)
    /\ trading_halts_cache' = trading_halts'
    /\ last_halt_update' = <<now>>

HaltCacheStep ==
    HaltsReturned => IF CacheIsRecent THEN CacheHit ELSE CacheRefresh

\* C19: get_trading_halts returns the cached list without a fetch when the
\* cache was refreshed less than 5 minutes ago, leaving the cache and its
\* timestamp as they were; with no timestamp, or one that is 5 minutes old or
\* older, it fetches and replaces the cache and the timestamp.
C19_HaltCacheFiveMinutes == [][HaltCacheStep]_vars

\* C19 witness: a scan that began exactly five minutes after the last
\* refresh asked NASDAQ again and replaced the cached list of symbol 2 by a
\* different one.
C19_Witness ==
    /\ scan_pc # "start"
    /\ now = 5
    /\ halt_fetched
    /\ last_halt_update = <<5>>
    /\ trading_halts_cache # HaltList({2})
    /\ trading_halts = trading_halts_cache

\* A scan that began four minutes after the last refresh returned the cached
\* list while NASDAQ lists other symbols, and asked nothing.
C19_HitWitness ==
    /\ scan_pc # "start"
    /\ now = 4
    /\ ~halt_fetched
    /\ last_halt_update = <<0>>
    /\ trading_halts = HaltList({2})
    /\ halt_source # HaltList({2})

\* A refresh whose request failed leaves the cache and its timestamp alone.
FailedRefreshKeepsCache ==
    (HaltsReturned /\ halt_fetched' /\ halt_fetch_fails) =>
        /\ trading_halts_cache' = trading_halts_cache
        /\ last_halt_update' = last_halt_update

\* C28 as stated: after a get_trading_halts call whose fetch failed, the
\* cache and its freshness timestamp are the same as before the call.
C28_FailedRefreshKeepsCache == [][FailedRefreshKeepsCache]_vars

\* A scan that began five minutes after symbol 2 was cached as halted, its
\* request failed: the cache is empty and stamped with the present minute.
C28_EmptyCachedAsFresh ==
    /\ scan_pc # "start"
    /\ now = 5
    /\ halt_fetched
    /\ halt_fetch_fails
    /\ trading_halts_cache = <<>>
    /\ last_halt_update = <<5>>

\* The scan was called as the scanner loop and the manual scan call it.
ScanCalledAsStored ==
    /\ min_change_percent = LoopScanArgs.min_change_percent
    /\ min_score = LoopScanArgs.min_score
    /\ LoopScanArgs = DefaultScanArgs

\* What an opportunity handed to store_squeeze_opportunity is promised to be;
\* prices are in cents.
Storable(opp) ==
    /\ opp.squeeze_score >= 60
    /\ Abs(opp.change_percent) >= 100
    /\ opp.volume_spike >= 2
    /\ opp.price <= 10000
    /\ opp.urgency \in {"MEDIUM", "HIGH", "CRITICAL"}
    /\ opp.urgency_priority = _get_urgency_priority(opp.urgency)
    /\ opp.urgency_priority >= 2

\* C30: every opportunity of the list the scanner loop and the manual scan
\* are returned, each of which they hand to store_squeeze_opportunity, has
\* score >= 60, |change_percent| >= 100, volume_spike >= 2, price <= 100.00
\* and an urgency of MEDIUM, HIGH or CRITICAL with priority >= 2.
C30_StoredOpportunitiesQualify ==
    ScanCalledAsStored =>
        /\ \A i \in 1..Len(squeeze_opportunities) :
               Storable(squeeze_opportunities[i])
        /\ \A i \in 1..Len(scan_result) : Storable(scan_result[i])

\* C30 witness: a finished scan with the loop's arguments returned an
\* opportunity of score exactly 60 and urgency MEDIUM and one of urgency
\* CRITICAL.
C30_Witness ==
    /\ ScanDone
    /\ ScanCalledAsStored
    /\ \E i \in 1..Len(scan_result) :
          /\ scan_result[i].squeeze_score = 60
          /\ scan_result[i].urgency = "MEDIUM"
          /\ scan_result[i].urgency_priority = 2
    /\ \E i \in 1..Len(scan_result) : scan_result[i].urgency = "CRITICAL"

\* How a scan that is over has gone through its candidates: each symbol of
\* the union of the sources was analyzed once, in the order of the list, and
\* the scan slept once less than it had batches of 10.
BatchesCoverCandidates ==
    ScanDone =>
        /\ {candidates_list[i] : i \in 1..Len(candidates_list)} = Candidates
        /\ Len(candidates_list) = Cardinality(Candidates)
        /\ analyzed = candidates_list
        /\ pauses = IF candidates_list = <<>> THEN 0
                    ELSE (Len(candidates_list) + 9) \div 10 - 1

\* A batch starts where the batches before it ended, after one pause each.
BatchesInSequence ==
    scan_pc \in {"batch", "pause", "sort"} =>
        /\ analyzed = SubSeq(candidates_list, 1, Len(analyzed))
        /\ scan_pc = "batch" => Len(analyzed) = 10 * pauses
        /\ scan_pc = "pause" => Len(analyzed) = 10 * (pauses + 1)

\* One batch: between 1 and 10 symbols, the next ones of the list, followed
\* by a pause exactly when symbols remain.
BatchStep ==
    (scan_pc = "batch" /\ scan_pc' # "batch") =>
        /\ Len(analyzed') - Len(analyzed) \in 1..10
        /\ analyzed' = SubSeq(candidates_list, 1, Len(analyzed'))
        /\ scan_pc' = "pause" <=> Len(analyzed') < Len(candidates_list)
        /\ scan_pc' = "sort" <=> Len(analyzed') = Len(candidates_list)

\* C24: within one scan the candidates (the union of the discovery sources
\* and the halted symbols) are cut into consecutive batches of at most 10
\* that are processed one after another without overlap; every candidate is
\* analyzed exactly once; the scan sleeps after every batch but the last.
C24_BatchesOfTenInSequence ==
    /\ [](BatchesCoverCandidates /\ BatchesInSequence)
    /\ [][BatchStep]_vars

\* C24 witness: 22 candidates went through as batches of 10, 10 and 2 with
\* two pauses.
C24_Witness ==
    /\ ScanDone
    /\ Len(candidates_list) = 22
    /\ analyzed = candidates_list
    /\ pauses = 2

----------------------------------------------------------------------------
(* Claims about the scheduler loops, checked under SpecLoops *)

\* The monitor loop leaves its market-hours gate having found the market closed.
ClosedIterationStep == monitor_pc = "check" /\ monitor_pc' # "check" /\ ~market_open

\* An iteration that finds the market closed fetches, evaluates and stores
\* nothing and sleeps 300 seconds, after which the gate is checked again.
ClosedIterationIdles ==
    /\ ClosedIterationStep =>
           /\ monitor_pc' = "sleep"
           /\ monitor_sleep' = 300
           /\ UNCHANGED <<portfolio, stock_index, last_exit_signals,
                          stored_exit_signal, critical_alert>>
    /\ (monitor_pc = "sleep" /\ monitor_sleep = 300) =>
           /\ monitor_pc' \in {"sleep", "check"}
           /\ stored_exit_signal' = None

\* The result was computed by the regular-session rules.
IsRegularResult(r) == Get(r, "market_hours", FALSE) /\ ~IsAfterHoursResult(r)

\* C15: the portfolio exit loop is gated by is_market_hours(): an iteration
\* that finds the market closed fetches no positions, evaluates nothing,
\* stores nothing and sleeps 5 minutes before checking again; and in every
\* execution, the clock crossing the close during an iteration included,
\* every result handed to store_exit_signal was computed by the
\* regular-session rules.
C15_LoopGatedByMarketHours ==
    /\ [][ClosedIterationIdles]_vars
    /\ [](stored_exit_signal # None => IsRegularResult(stored_exit_signal))

\* The part of C15 the code keeps: the closed-market iteration.
C15_ClosedIterationIdles == [][ClosedIterationIdles]_vars

\* C16: in every open-market iteration the result of a position's evaluation
\* is handed to store_exit_signal if and only if it is not None and its
\* aggregate urgency is >= 50; every stored result of urgency >= 85 is also
\* escalated (and nothing else is); no result of urgency < 50 is stored.
C16_ForwardedIffUrgent ==
    /\ stored_exit_signal # None <=>
           (last_exit_signals # None /\ Get(last_exit_signals, "urgency", 0) >= 50)
    /\ stored_exit_signal # None =>
           /\ stored_exit_signal = last_exit_signals
           /\ stored_exit_signal.urgency >= 50
    /\ critical_alert <=>
           (stored_exit_signal # None /\ stored_exit_signal.urgency >= 85)

\* C16 witness: a position's result of urgency >= 85 has been stored and
\* escalated, in an iteration of the loop.
C16_Witness ==
    /\ monitor_pc \in {"eval", "close"}
    /\ stock_index > 0
    /\ stored_exit_signal # None
    /\ stored_exit_signal.urgency >= 85
    /\ critical_alert

\* A position's result of urgency below 50 was not stored.
C16_LowUrgencyNotStored ==
    /\ monitor_pc \in {"eval", "close"}
    /\ last_exit_signals # None
    /\ last_exit_signals.urgency \in 1..49
    /\ stored_exit_signal = None

\* The step in which a loop fails for the first time takes it to its sleep
\* (the monitor loop to its 15 second sleep).
FailureSleeps(loop, pc_after) ==
    (loop \notin failed_loops /\ loop \in failed_loops') => pc_after = "sleep"

FailuresAreSwallowed ==
    /\ FailureSleeps("monitor", monitor_pc')
    /\ FailureSleeps("scanner", scanner_pc')
    /\ FailureSleeps("cleanup", cleanup_pc')
    /\ ("monitor" \notin failed_loops /\ "monitor" \in failed_loops')
           => monitor_sleep' = 15

\* C17: each of the three scheduler loops survives an exception raised in an
\* iteration: the exception is swallowed and the loop goes to its sleep, and
\* under fairness every loop starts an iteration and reaches its sleep again
\* and again, whatever fails in the other loops.
C17_LoopsSurviveExceptions ==
    /\ []<>(monitor_pc = "check") /\ []<>(monitor_pc = "sleep")
    /\ []<>(scanner_pc = "scan") /\ []<>(scanner_pc = "sleep")
    /\ []<>(cleanup_pc = "run") /\ []<>(cleanup_pc = "sleep")
    /\ [][FailuresAreSwallowed]_vars

\* C17 witness: an iteration of every loop has raised, and every loop is at
\* the start of another iteration.
C17_Witness ==
    /\ failed_loops = LoopNames
    /\ monitor_pc = "check"
    /\ scanner_pc = "scan"
    /\ cleanup_pc = "run"

----------------------------------------------------------------------------
(* Claims about the rate limiter, checked under SpecRate *)

\* The positions in released of two requests of one source with no request
\* of that source between them.
ConsecutiveReleases ==
    {p \in (1..Len(released)) \X (1..Len(released)) :
        /\ p[1] < p[2]
        /\ released[p[1]].api_name = released[p[2]].api_name
        /\ \A k \in (p[1] + 1)..(p[2] - 1) :
               released[k].api_name # released[p[1]].api_name}

\* C20: for each source name, any two consecutive requests that
\* rate_limit_wait has released are at least request_delay apart, whatever
\* the interleaving of the calling tasks.
C20_MinimumIntervalPerSource ==
    \A p \in ConsecutiveReleases :
        released[p[2]].at - released[p[1]].at >= request_delay

----------------------------------------------------------------------------
(* Claims about the manual triggers and the portfolio store, checked under
   SpecPf *)

\* The loop iteration and the manual monitor have both run, over the same
\* collection and the same answer of is_market_hours().
BothMonitorsDone ==
    /\ pf_task["loop"].pc = "done"
    /\ pf_task["manual"].pc = "done"
    /\ pf_task["loop"].seen = pf_task["manual"].seen

BothScansDone == pf_scans["loop"] # Null /\ pf_scans["manual"] # Null

\* C21: on identical inputs the manual scan stores exactly the opportunities
\* one iteration of the scanner loop stores, and the manual portfolio monitor
\* stores exactly the exit results one iteration of the monitor loop stores.
C21_ManualTriggersMatchLoops ==
    /\ BothScansDone => pf_scans["manual"] = pf_scans["loop"]
    /\ BothMonitorsDone => pf_task["manual"].stored = pf_task["loop"].stored

\* The scan half of C21 on its own.
C21_ManualScanMatchesLoop ==
    BothScansDone => pf_scans["manual"] = pf_scans["loop"]

\* Both scans have stored the same non-empty list.
C21_ScanWitness ==
    /\ BothScansDone
    /\ pf_scans["loop"] # Num(<<>>)

\* C29 as stated: a symbol whose removal from the portfolio has completed and
\* that has not been added again has no record in exit_signals.
C29_RemovedHasNoExitSignal == \A symbol \in pf_removed : symbol \notin pf_exit_signals

\* The manual monitor read the portfolio with AAA in it, AAA was removed
\* while the run waited for an after-hours quote, and the run then stored an
\* exit signal for AAA.
C29_StoredAfterRemoval ==
    /\ "AAA" \in pf_task["manual"].seen
    /\ "AAA" \in pf_removed
    /\ "AAA" \notin pf_collection
    /\ "AAA" \in StoredSymbols(pf_task["manual"].stored)
    /\ "AAA" \in pf_exit_signals

----------------------------------------------------------------------------
(* Claims about the market-hours predicates, checked under SpecMh *)

IsWeekday == now_et.weekday \in 0..4

\* The local time of day in seconds.
SecondOfDay == 3600 * now_et.hour + 60 * now_et.minute + now_et.second

\* The local time of day as the clock shows it, hour and minute.
MinuteOfDay == 60 * now_et.hour + now_et.minute

BothPredicatesRead == market_hours_result # Null /\ after_hours_result # Null

----------------------------------------------------------------------------
(* Claims about concurrent calls of get_trading_halts, checked under SpecHc *)

NoRequestInFlight == \A t \in HaltCallers : hc_task[t].pc = "idle"

\* C27 as stated: any two requests to the halt page are issued at least
\* five minutes apart, and once every request has been answered the cache
\* is the one filled from the most recently issued request.
C27_OneFetchPerWindowLatestCached ==
    /\ \A i, j \in 1..Len(hc_issued) :
          i < j => hc_issued[j] - hc_issued[i] >= HaltCacheMinutes
    /\ (NoRequestInFlight /\ ~IsNull(hc_cache_of)) =>
          Val(hc_cache_of) = Len(hc_issued)

\* Two requests issued in the same minute.
C27_TwoFetchesInOneWindow ==
    \E i, j \in 1..Len(hc_issued) : i < j /\ hc_issued[j] = hc_issued[i]

\* No request is in flight and the cache holds the answer to a request
\* older than the last one issued.
C27_OlderFetchCached ==
    /\ NoRequestInFlight
    /\ ~IsNull(hc_cache_of)
    /\ Val(hc_cache_of) < Len(hc_issued)

====
